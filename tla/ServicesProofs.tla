--------------------------- MODULE ServicesProofs ---------------------------
(***************************************************************************)
(* Registration and trial of a school in the control plane, the usage it   *)
(* is metered for and the deals it is billed on, the payment of a tutoring *)
(* booking, the providers that staff switch, test and rotate, and what the *)
(* academic service keeps of marks and terms: what they keep true for any  *)
(* number of requests, deliveries and failures.                            *)
(***************************************************************************)
EXTENDS TenantIntake, Tutoring, Providers, SchoolRecords, Charges, SumTheorems,
        SequenceTheorems, TLAPS

-----------------------------------------------------------------------------
(* Registration, provisioning and trial: TenantIntake.                     *)

\* What a handler is about to write, by operation.
HandlerOf(at) ==
    \/ /\ at.op = "activate" /\ at.key = NoKey
       /\ at.to = "active" /\ at.status = "none"
    \/ /\ at.op = "provision" /\ at.key \in Keys
       /\ at.to = "provisioning" /\ at.status = "queued"
    \/ /\ at.op = "report" /\ at.key \in Keys
       /\ at.status \in {"running", "succeeded", "failed"}
       /\ at.to = SchoolAfter(at.status)
    \/ at.op = "staff" /\ at.key = NoKey /\ at.to # "none" /\ at.status = "none"

HandlersInv == \A h \in Handlers : InHand(h) => HandlerOf(handler[h])

\* Until two requests overlap there is one, and what it has read is still so.
SerialInv ==
    ~entwined =>
       /\ \A g, h \in Handlers : InHand(g) /\ InHand(h) => g = h
       /\ \A h \in Handlers : InHand(h) => handler[h].school = school

\* No request is under way for a tenant that is not there.
RegisteredInv == \A h \in Handlers : InHand(h) => school # "none"

IntakeInv == IntakeTypeOK /\ HandlersInv /\ SerialInv /\ RegisteredInv /\ IntakeSound

LEMMA IntakeInitInv == IntakeInit => IntakeInv
<1> SUFFICES ASSUME IntakeInit PROVE IntakeInv
    OBVIOUS
<1>1. IntakeTypeOK
  <2>1. requests \in 0 .. MaxRequests
        BY IntakeAssumption DEF IntakeInit
  <2>2. school \in SchoolStatus /\ job \in [Keys -> JobStatus]
        BY DEF IntakeInit, SchoolStatus, JobStatus
  <2>3. NoRequest \in [pc : {"idle", "write"}, op : Ops,
           school : SchoolStatus, grant : BOOLEAN, key : Keys \cup {NoKey},
           to : SchoolStatus, status : JobStatus]
        BY DEF NoRequest, SchoolStatus, JobStatus, Ops
  <2>4. handler \in [Handlers -> [pc : {"idle", "write"}, op : Ops,
           school : SchoolStatus, grant : BOOLEAN, key : Keys \cup {NoKey},
           to : SchoolStatus, status : JobStatus]]
        BY <2>3 DEF IntakeInit
  <2>5. {byStaff, grant, verified, entwined} \subseteq BOOLEAN
        BY Zenon DEF IntakeInit
  <2>6. QED BY <2>1, <2>2, <2>4, <2>5 DEF IntakeTypeOK
<1>2. HandlersInv /\ SerialInv /\ RegisteredInv
      BY DEF IntakeInit, HandlersInv, SerialInv, RegisteredInv, InHand, NoRequest
<1>3. IntakeSound
      BY DEF IntakeInit, IntakeSound
<1>4. QED BY <1>1, <1>2, <1>3 DEF IntakeInv

-----------------------------------------------------------------------------
(* Registration: the tenant was not there, and so no request is under way. *)

LEMMA CreateSchoolInv ==
    ASSUME IntakeInv, RegisterTenant \/ CreateTenant
    PROVE  IntakeInv'
<1>1. /\ school = "none" /\ school' \in {"pending_verification", "active"}
      /\ school' = "active" => byStaff'
      /\ byStaff' \in {byStaff, TRUE}
      /\ UNCHANGED <<grant, job, handler, requests, verified, entwined>>
      BY Zenon DEF RegisterTenant, CreateTenant
<1>2. \A h \in Handlers : ~InHand(h)
      BY <1>1 DEF IntakeInv, RegisteredInv
<1>3. \A h \in Handlers : ~InHand(h)'
      BY <1>1, <1>2 DEF InHand
<1>4. IntakeTypeOK'
      BY <1>1 DEF IntakeInv, IntakeTypeOK, SchoolStatus
<1>5. HandlersInv' /\ SerialInv' /\ RegisteredInv'
      BY <1>3 DEF HandlersInv, SerialInv, RegisteredInv
<1>6. IntakeSound'
      BY <1>1 DEF IntakeInv, IntakeSound
<1>7. QED BY <1>4, <1>5, <1>6 DEF IntakeInv

-----------------------------------------------------------------------------
(* A request reads.                                                        *)

LEMMA BeginIntakeInv ==
    ASSUME IntakeInv, NEW h \in Handlers, NEW op \in Ops, NEW key \in Keys \cup {NoKey},
           NEW to \in SchoolStatus, NEW status \in JobStatus,
           BeginHandler(h, op, key, to, status),
           HandlerOf([pc |-> "write", op |-> op, school |-> school, grant |-> grant,
                      key |-> key, to |-> to, status |-> status])
    PROVE  IntakeInv'
<1>1. /\ handler'[h] = [pc |-> "write", op |-> op, school |-> school, grant |-> grant,
                        key |-> key, to |-> to, status |-> status]
      /\ \A g \in Handlers : g # h => handler'[g] = handler[g]
      BY DEF BeginHandler, IntakeInv, IntakeTypeOK
<1>2. /\ UNCHANGED <<school, byStaff, grant, job, verified>>
      /\ school # "none"
      /\ ~entwined' => ~entwined /\ \A g \in Handlers : ~InHand(g)
      BY DEF BeginHandler, IntakeInv, IntakeTypeOK
<1>3. IntakeTypeOK'
  <2>1. handler' \in [Handlers -> [pc : {"idle", "write"}, op : Ops,
           school : SchoolStatus, grant : BOOLEAN, key : Keys \cup {NoKey},
           to : SchoolStatus, status : JobStatus]]
        BY DEF BeginHandler, IntakeInv, IntakeTypeOK
  <2>2. requests' \in 0 .. MaxRequests
        BY IntakeAssumption DEF BeginHandler, IntakeInv, IntakeTypeOK
  <2>3. entwined' \in BOOLEAN
        BY DEF BeginHandler, IntakeInv, IntakeTypeOK
  <2>4. QED BY <1>2, <2>1, <2>2, <2>3 DEF IntakeInv, IntakeTypeOK
<1>4. HandlersInv'
      BY <1>1 DEF IntakeInv, HandlersInv, InHand
<1>5. SerialInv'
      BY <1>1, <1>2 DEF SerialInv, InHand
<1>6. RegisteredInv'
      BY <1>2 DEF RegisteredInv
<1>7. IntakeSound'
      BY <1>2 DEF IntakeInv, IntakeSound
<1>8. QED BY <1>3, <1>4, <1>5, <1>6, <1>7 DEF IntakeInv

LEMMA RequestInv ==
    ASSUME IntakeInv, NEW h \in Handlers,
           \/ ActivateSchool(h)
           \/ \E k \in Keys : ProvisionTenant(h, k)
           \/ \E k \in Keys, status \in {"running", "succeeded", "failed"} :
                 ProvisioningResult(h, k, status)
           \/ \E to \in SchoolStatus \ {"none"} : SetStatus(h, to)
    PROVE  IntakeInv'
<1>1. CASE ActivateSchool(h)
      BY <1>1, BeginIntakeInv DEF ActivateSchool, Ops, SchoolStatus, JobStatus, HandlerOf
<1>2. ASSUME NEW k \in Keys, ProvisionTenant(h, k) PROVE IntakeInv'
      BY <1>2, BeginIntakeInv DEF ProvisionTenant, Ops, SchoolStatus, JobStatus, HandlerOf
<1>3. ASSUME NEW k \in Keys, NEW status \in {"running", "succeeded", "failed"},
             ProvisioningResult(h, k, status)
      PROVE  IntakeInv'
  <2>1. SchoolAfter(status) \in SchoolStatus
        BY DEF SchoolAfter, SchoolStatus
  <2>2. "report" \in Ops /\ status \in JobStatus
        BY DEF Ops, JobStatus
  <2>3. QED BY <1>3, <2>1, <2>2, BeginIntakeInv DEF ProvisioningResult, HandlerOf
<1>4. ASSUME NEW to \in SchoolStatus \ {"none"}, SetStatus(h, to) PROVE IntakeInv'
      BY <1>4, BeginIntakeInv DEF SetStatus, Ops, JobStatus, HandlerOf
<1>5. QED BY <1>1, <1>2, <1>3, <1>4

-----------------------------------------------------------------------------
(* A request commits, or is rolled back.                                   *)

LEMMA EndsInHand ==
    ASSUME IntakeInv, NEW h \in Handlers, CommitHandler(h) \/ RollBack(h)
    PROVE  /\ InHand(h) /\ ~InHand(h)'
           /\ \A g \in Handlers : g # h => handler'[g] = handler[g]
           /\ handler' \in [Handlers -> [pc : {"idle", "write"}, op : Ops,
                 school : SchoolStatus, grant : BOOLEAN, key : Keys \cup {NoKey},
                 to : SchoolStatus, status : JobStatus]]
           /\ UNCHANGED <<requests, entwined>>
<1>1. NoRequest \in [pc : {"idle", "write"}, op : Ops,
                 school : SchoolStatus, grant : BOOLEAN, key : Keys \cup {NoKey},
                 to : SchoolStatus, status : JobStatus]
      BY DEF NoRequest, Ops, SchoolStatus, JobStatus
<1>2. InHand(h) /\ handler' = [handler EXCEPT ![h] = NoRequest]
      BY DEF CommitHandler, RollBack
<1>3. NoRequest.pc = "idle"
      BY DEF NoRequest
<1>4. QED BY <1>1, <1>2, <1>3 DEF IntakeInv, IntakeTypeOK, InHand, CommitHandler, RollBack

LEMMA RollBackInv ==
    ASSUME IntakeInv, NEW h \in Handlers, RollBack(h)
    PROVE  IntakeInv'
<1>1. UNCHANGED <<school, byStaff, grant, job, requests, verified, entwined>>
      BY DEF RollBack
<1>2. IntakeTypeOK'
      BY <1>1, EndsInHand DEF IntakeInv, IntakeTypeOK
<1>3. HandlersInv' /\ SerialInv' /\ RegisteredInv'
      BY <1>1, EndsInHand DEF IntakeInv, HandlersInv, SerialInv, RegisteredInv, InHand
<1>4. IntakeSound'
      BY <1>1 DEF IntakeInv, IntakeSound
<1>5. QED BY <1>2, <1>3, <1>4 DEF IntakeInv

LEMMA CommitIntakeInv ==
    ASSUME IntakeInv, NEW h \in Handlers, CommitHandler(h)
    PROVE  IntakeInv'
<1> DEFINE at == handler[h]
<1>1. HandlerOf(at) /\ at.key \in Keys \cup {NoKey} /\ at.to \in SchoolStatus
      /\ at.status \in JobStatus /\ school # "none"
      BY EndsInHand DEF IntakeInv, IntakeTypeOK, HandlersInv, RegisteredInv
<1>2. /\ school' = IF at.to \in {"none", at.school} THEN school ELSE at.to
      /\ grant' = (grant \/ Grants(h))
      /\ byStaff' = (byStaff \/ at.op = "staff")
      /\ verified' = (verified \/ at.op = "activate" \/ at.status = "succeeded")
      BY DEF CommitHandler
<1>3. \A k \in Keys : job'[k] = IF k = at.key THEN at.status ELSE job[k]
      BY IntakeAssumption DEF CommitHandler, IntakeInv, IntakeTypeOK
<1>4. job' \in [Keys -> JobStatus]
      BY <1>1 DEF CommitHandler, IntakeInv, IntakeTypeOK
<1>5. school' \in SchoolStatus /\ school' # "none"
      BY <1>1, <1>2 DEF IntakeInv, IntakeTypeOK
<1>6. Grants(h) <=> at.to = "active" /\ at.op \in {"activate", "report"}
      BY DEF Grants
<1>7. {byStaff', grant', verified'} \subseteq BOOLEAN
      BY <1>2, <1>6 DEF IntakeInv, IntakeTypeOK
<1>8. IntakeTypeOK'
      BY <1>4, <1>5, <1>7, EndsInHand DEF IntakeInv, IntakeTypeOK
<1>9. HandlersInv' /\ RegisteredInv'
      BY <1>5, EndsInHand DEF IntakeInv, HandlersInv, RegisteredInv, InHand
<1>10. SerialInv'
      BY EndsInHand DEF IntakeInv, SerialInv, InHand
<1>11. at.to = "active" /\ at.op = "report" => at.status = "succeeded"
      BY <1>1 DEF HandlerOf, SchoolAfter
<1>12. at.status = "succeeded" => at.to = "active" /\ at.op = "report"
      BY <1>1 DEF HandlerOf, SchoolAfter
<1>13. grant' => verified'
      BY <1>2, <1>6, <1>11 DEF IntakeInv, IntakeSound
<1>14. school' = "active" /\ ~byStaff' => grant'
      BY <1>1, <1>2, <1>6 DEF IntakeInv, IntakeSound, HandlerOf
<1>15. (\E k \in Keys : job'[k] = "succeeded") => grant'
      BY <1>2, <1>3, <1>6, <1>12 DEF IntakeInv, IntakeSound
<1>16. ASSUME school' = "provisioning", ~byStaff', ~entwined'
       PROVE  \E k \in Keys : job'[k] \notin {"none", "succeeded"}
  <2>1. ~entwined /\ ~byStaff /\ at.op # "staff" /\ at.school = school
        BY <1>2, <1>16, EndsInHand DEF IntakeInv, SerialInv
  <2>2. CASE at.status \in {"queued", "running", "failed"}
    <3>1. at.key \in Keys
          BY <1>1, <2>2 DEF HandlerOf
    <3>2. QED BY <1>3, <2>2, <3>1
  <2>3. CASE at.status \in {"none", "succeeded"}
    <3>1. at.to = "active"
          BY <1>1, <2>1, <2>3, <1>12 DEF HandlerOf
    <3>2. QED BY <3>1, <2>1, <1>2, <1>16
  <2>4. QED BY <1>1, <2>2, <2>3 DEF JobStatus
<1>17. IntakeSound'
      BY <1>13, <1>14, <1>15, <1>16 DEF IntakeSound
<1>18. QED BY <1>8, <1>9, <1>10, <1>17 DEF IntakeInv

-----------------------------------------------------------------------------
LEMMA IntakeStepInv ==
    ASSUME IntakeInv, [IntakeNext]_intakeVars
    PROVE  IntakeInv'
<1>1. CASE UNCHANGED intakeVars
      BY <1>1 DEF intakeVars, IntakeInv, IntakeTypeOK, HandlersInv, SerialInv,
            RegisteredInv, IntakeSound, InHand
<1>2. CASE IntakeNext
      BY <1>2, CreateSchoolInv, RequestInv, CommitIntakeInv, RollBackInv DEF IntakeNext
<1>3. QED BY <1>1, <1>2

\* However requests overlap, fail and are repeated: no trial without a
\* verified school, no active school of the intake without its trial, and none
\* that waits for a database with every job succeeded.
THEOREM IntakeIsSound == IntakeSpec => []IntakeSound
<1>1. IntakeSpec => []IntakeInv
      BY IntakeInitInv, IntakeStepInv, PTL DEF IntakeSpec
<1>2. QED BY <1>1, PTL DEF IntakeInv

\* Registrations, schools and requests keep their types.
LEMMA IntakeTypesHold == IntakeSpec => []IntakeTypeOK
<1>1. IntakeInv => IntakeTypeOK
      BY DEF IntakeInv
<1>2. QED BY <1>1, IntakeInitInv, IntakeStepInv, PTL DEF IntakeSpec

-----------------------------------------------------------------------------
(* The payment of a booking: Tutoring.                                     *)

VerifierPcs == {"new", "ask", "session", "payment", "settle", "credit", "done"}
VerifierRows == [pc : VerifierPcs, payment : Payments \cup {NoPayment}]
HookRows == [pc : {"new", "read", "done"}, payment : Payments \cup {NoPayment},
             found : BOOLEAN]

\* What a verification has established when it gets to a step.
VerifierInv ==
    \A v \in Verifiers :
        /\ verifier[v].pc \in {"ask", "session", "payment", "settle", "credit"}
              => verifier[v].payment \in Payments
        /\ verifier[v].pc \in {"session", "payment", "settle", "credit"}
              => gateway[verifier[v].payment] = "charged"
        /\ verifier[v].pc \in {"payment", "settle", "credit"}
              => checkout[verifier[v].payment] = "settled"
        /\ verifier[v].pc = "credit" => booking = "paid" \/ takenBack

\* A webhook reports a charge.
HookInv ==
    \A h \in Hooks : hook[h].pc = "read" =>
        /\ hook[h].payment \in Payments
        /\ gateway[hook[h].payment] = "charged"

TutoringInv == TutoringTypeOK /\ VerifierInv /\ HookInv /\ BookingsPaidFor

LEMMA TutoringInitInv == TutoringInit => TutoringInv
<1> SUFFICES ASSUME TutoringInit PROVE TutoringInv
    OBVIOUS
<1>1. TutoringTypeOK
      BY DEF TutoringInit, TutoringTypeOK, NewHook, NewVerifier
<1>2. VerifierInv /\ HookInv
      BY DEF TutoringInit, VerifierInv, HookInv, NewHook, NewVerifier
<1>3. BookingsPaidFor
      BY DEF TutoringInit, BookingsPaidFor
<1>4. QED BY <1>1, <1>2, <1>3 DEF TutoringInv

-----------------------------------------------------------------------------
(* The tutoring service.                                                   *)

LEMMA ConfirmInv ==
    ASSUME TutoringInv, NEW c \in Confirms, BeginConfirm(c) \/ Confirm(c)
    PROVE  TutoringInv'
<1> USE DEF TutoringInv
<1>1. CASE BeginConfirm(c)
  <2>1. TutoringTypeOK'
        BY <1>1 DEF BeginConfirm, TutoringTypeOK
  <2>2. VerifierInv' /\ HookInv' /\ BookingsPaidFor'
        BY <1>1 DEF BeginConfirm, VerifierInv, HookInv, BookingsPaidFor
  <2>3. QED BY <2>1, <2>2
<1>2. CASE Confirm(c)
  <2>1. TutoringTypeOK'
        BY <1>2 DEF Confirm, TutoringTypeOK
  <2>2. VerifierInv' /\ HookInv'
        BY <1>2 DEF Confirm, VerifierInv, HookInv
  <2>3. BookingsPaidFor'
        BY <1>2 DEF Confirm, BookingsPaidFor
  <2>4. QED BY <2>1, <2>2, <2>3
<1>3. QED BY <1>1, <1>2

LEMMA IntentInv ==
    ASSUME TutoringInv, NEW p \in Payments, CreatePaymentIntent(p)
    PROVE  TutoringInv'
<1> USE DEF TutoringInv, CreatePaymentIntent
<1>1. TutoringTypeOK'
      BY DEF TutoringTypeOK
<1>2. VerifierInv' /\ HookInv'
      BY DEF VerifierInv, HookInv
<1>3. \A q \in Payments : payment'[q] = "paid" <=> payment[q] = "paid"
      BY DEF TutoringTypeOK
<1>4. BookingsPaidFor'
      BY <1>3 DEF BookingsPaidFor
<1>5. QED BY <1>1, <1>2, <1>4

-----------------------------------------------------------------------------
(* The payment service: a checkout stays settled and a charge stays.       *)

LEMMA CheckoutInv ==
    ASSUME TutoringInv, TutoringTypeOK',
           \A q \in Payments : gateway[q] = "charged" => gateway'[q] = "charged",
           \A q \in Payments : checkout[q] = "settled" => checkout'[q] = "settled",
           \A q \in Payments : checkout'[q] = "settled" => gateway'[q] = "charged",
           \A h \in Hooks : hook'[h].pc = "read" =>
               /\ hook'[h].payment \in Payments
               /\ gateway'[hook'[h].payment] = "charged",
           UNCHANGED <<booking, payment, verifier, takenBack>>
    PROVE  TutoringInv'
<1>1. VerifierInv'
      BY DEF TutoringInv, VerifierInv
<1>2. HookInv'
      BY DEF HookInv
<1>3. BookingsPaidFor'
      BY DEF TutoringInv, BookingsPaidFor
<1>4. QED BY <1>1, <1>2, <1>3 DEF TutoringInv

LEMMA GatewayInv ==
    ASSUME TutoringInv, NEW p \in Payments,
           OpenCheckout(p) \/ CommitCheckout(p) \/ Charge(p)
    PROVE  TutoringInv'
<1>1. TutoringTypeOK'
      BY DEF TutoringInv, TutoringTypeOK, OpenCheckout, CommitCheckout, Charge
<1>2. \A q \in Payments : gateway[q] = "charged" => gateway'[q] = "charged"
      BY DEF TutoringInv, TutoringTypeOK, OpenCheckout, CommitCheckout, Charge
<1>3. \A q \in Payments : checkout[q] = "settled" <=> checkout'[q] = "settled"
      BY DEF TutoringInv, TutoringTypeOK, OpenCheckout, CommitCheckout, Charge
<1>4. UNCHANGED <<booking, payment, verifier, takenBack, hook>>
      BY DEF OpenCheckout, CommitCheckout, Charge
<1>5. \A q \in Payments : checkout'[q] = "settled" => gateway'[q] = "charged"
      BY <1>2, <1>3 DEF TutoringInv, BookingsPaidFor
<1>6. \A h \in Hooks : hook'[h].pc = "read" =>
         /\ hook'[h].payment \in Payments
         /\ gateway'[hook'[h].payment] = "charged"
      BY <1>2, <1>4 DEF TutoringInv, HookInv
<1>7. QED BY <1>1, <1>2, <1>3, <1>4, <1>5, <1>6, CheckoutInv

LEMMA BeginHookInv ==
    ASSUME TutoringInv, NEW h \in Hooks, NEW p \in Payments, BeginHook(h, p)
    PROVE  TutoringInv'
<1>1. TutoringTypeOK'
      BY DEF TutoringInv, TutoringTypeOK, BeginHook
<1>2. \A k \in Hooks : hook'[k].pc = "read" =>
         /\ hook'[k].payment \in Payments
         /\ gateway[hook'[k].payment] = "charged"
  <2>1. ASSUME NEW k \in Hooks
        PROVE  hook'[k] = IF k = h
                            THEN [pc |-> "read", payment |-> p, found |-> checkout[p] # "none"]
                            ELSE hook[k]
        BY DEF BeginHook, TutoringInv, TutoringTypeOK
  <2>2. QED BY <2>1 DEF BeginHook, TutoringInv, HookInv
<1>3. UNCHANGED <<booking, payment, verifier, takenBack, checkout, gateway>>
      BY DEF BeginHook
<1>4. \A q \in Payments : checkout'[q] = "settled" => gateway'[q] = "charged"
      BY <1>3 DEF TutoringInv, BookingsPaidFor
<1>5. QED BY <1>1, <1>2, <1>3, <1>4, CheckoutInv

LEMMA CommitHookInv ==
    ASSUME TutoringInv, NEW h \in Hooks, CommitHook(h)
    PROVE  TutoringInv'
<1>1. hook[h].payment \in Payments /\ gateway[hook[h].payment] = "charged"
      BY DEF CommitHook, TutoringInv, HookInv
<1>2. \A q \in Payments :
         \/ checkout'[q] = checkout[q]
         \/ checkout'[q] = "settled" /\ q = hook[h].payment
      BY DEF CommitHook, TutoringInv, TutoringTypeOK
<1>3. \A k \in Hooks : hook'[k].pc = "read" => hook'[k] = hook[k]
      BY DEF CommitHook, TutoringInv, TutoringTypeOK
<1>4. TutoringTypeOK'
  <2>1. seen' \subseteq Payments
        BY <1>1 DEF CommitHook, TutoringInv, TutoringTypeOK
  <2>2. checkout' \in [Payments -> {"none", "pending", "settled"}]
        BY DEF CommitHook, TutoringInv, TutoringTypeOK
  <2>3. hook' \in [Hooks -> HookRows]
        BY DEF CommitHook, TutoringInv, TutoringTypeOK, HookRows
  <2>4. QED BY <2>1, <2>2, <2>3 DEF CommitHook, TutoringInv, TutoringTypeOK, HookRows
<1>5. UNCHANGED <<booking, payment, verifier, takenBack, gateway>>
      BY DEF CommitHook
<1>6. \A q \in Payments : checkout'[q] = "settled" => gateway'[q] = "charged"
      BY <1>1, <1>2, <1>5 DEF TutoringInv, BookingsPaidFor
<1>7. \A k \in Hooks : hook'[k].pc = "read" =>
         /\ hook'[k].payment \in Payments
         /\ gateway'[hook'[k].payment] = "charged"
      BY <1>3, <1>5 DEF TutoringInv, HookInv
<1>8. QED BY <1>2, <1>4, <1>5, <1>6, <1>7, CheckoutInv

-----------------------------------------------------------------------------
(* verifyPayment.                                                          *)

LEMMA GoesTo ==
    ASSUME TutoringInv, NEW v \in Verifiers, NEW pc \in VerifierPcs, Goes(v, pc)
    PROVE  /\ verifier' \in [Verifiers -> VerifierRows]
           /\ verifier'[v].pc = pc /\ verifier'[v].payment = verifier[v].payment
           /\ \A w \in Verifiers : w # v => verifier'[w] = verifier[w]
BY DEF TutoringInv, TutoringTypeOK, Goes, VerifierRows, VerifierPcs

LEMMA BeginVerifyInv ==
    ASSUME TutoringInv, NEW v \in Verifiers, NEW p \in Payments, BeginVerify(v, p)
    PROVE  TutoringInv'
<1>1. TutoringTypeOK'
      BY DEF TutoringInv, TutoringTypeOK, BeginVerify
<1>2. \A w \in Verifiers : verifier'[w] = IF w = v THEN [pc |-> "ask", payment |-> p]
                                                   ELSE verifier[w]
      BY DEF TutoringInv, TutoringTypeOK, BeginVerify
<1>3. VerifierInv'
      BY <1>2 DEF BeginVerify, TutoringInv, VerifierInv
<1>4. HookInv' /\ BookingsPaidFor'
      BY DEF BeginVerify, TutoringInv, HookInv, BookingsPaidFor
<1>5. QED BY <1>1, <1>3, <1>4 DEF TutoringInv

\* Steps that write no row: the gateway's answer, the read of settle_payment,
\* and the calls that fail.
LEMMA LookInv ==
    ASSUME TutoringInv, NEW v \in Verifiers,
           AskGateway(v) \/ BeginSettlePayment(v) \/ FailVerify(v)
    PROVE  TutoringInv'
<1>1. PICK pc \in VerifierPcs :
         /\ Goes(v, pc)
         /\ \/ pc = "done"
            \/ pc = "session" /\ verifier[v].pc = "ask" /\ ReportedPaid(verifier[v].payment)
            \/ pc = "credit" /\ verifier[v].pc = "payment" /\ booking = "paid"
            \/ pc = "settle" /\ verifier[v].pc = "payment"
      BY DEF AskGateway, BeginSettlePayment, FailVerify, VerifierPcs
<1>2. UNCHANGED <<booking, payment, checkout, gateway, confirming, seen, hook, takenBack>>
      BY DEF AskGateway, BeginSettlePayment, FailVerify
<1>3. TutoringTypeOK'
      BY <1>1, <1>2, GoesTo DEF TutoringInv, TutoringTypeOK, VerifierRows, VerifierPcs
<1>4. VerifierInv'
      BY <1>1, <1>2, GoesTo DEF TutoringInv, VerifierInv, ReportedPaid
<1>5. HookInv' /\ BookingsPaidFor'
      BY <1>2 DEF TutoringInv, HookInv, BookingsPaidFor
<1>6. QED BY <1>3, <1>4, <1>5 DEF TutoringInv

LEMMA SettleCheckoutInv ==
    ASSUME TutoringInv, NEW v \in Verifiers, SettleCheckout(v)
    PROVE  TutoringInv'
<1>1. verifier[v].payment \in Payments /\ gateway[verifier[v].payment] = "charged"
      BY DEF SettleCheckout, TutoringInv, VerifierInv
<1>2. /\ Goes(v, "payment")
      /\ UNCHANGED <<booking, payment, gateway, confirming, seen, hook, takenBack>>
      BY DEF SettleCheckout
<1>3. "payment" \in VerifierPcs
      BY DEF VerifierPcs
<1>4. \A q \in Payments : checkout'[q] = IF q = verifier[v].payment THEN "settled"
                                         ELSE checkout[q]
      BY DEF SettleCheckout, TutoringInv, TutoringTypeOK
<1>5. checkout' \in [Payments -> {"none", "pending", "settled"}]
      BY DEF SettleCheckout, TutoringInv, TutoringTypeOK
<1>6. TutoringTypeOK'
      BY <1>2, <1>3, <1>5, GoesTo
         DEF TutoringInv, TutoringTypeOK, VerifierRows, VerifierPcs
<1>7. VerifierInv'
      BY <1>1, <1>2, <1>3, <1>4, GoesTo DEF TutoringInv, VerifierInv
<1>8. HookInv' /\ BookingsPaidFor'
      BY <1>1, <1>2, <1>4 DEF TutoringInv, HookInv, BookingsPaidFor
<1>9. QED BY <1>6, <1>7, <1>8 DEF TutoringInv

LEMMA SettlePaymentInv ==
    ASSUME TutoringInv, NEW v \in Verifiers, SettlePayment(v)
    PROVE  TutoringInv'
<1>1. /\ verifier[v].payment \in Payments
      /\ checkout[verifier[v].payment] = "settled"
      BY DEF SettlePayment, TutoringInv, VerifierInv
<1>2. Goes(v, "done") /\ UNCHANGED <<checkout, gateway, confirming, seen, hook>>
      BY DEF SettlePayment
<1>3. "done" \in VerifierPcs
      BY DEF VerifierPcs
<1>4. \A q \in Payments : payment'[q] = IF q = verifier[v].payment THEN "paid"
                                        ELSE payment[q]
      BY DEF SettlePayment, TutoringInv, TutoringTypeOK
<1>5. booking' = "paid" \/ (booking' = booking /\ takenBack')
      BY DEF SettlePayment, TutoringInv, VerifierInv
<1>6. TutoringTypeOK'
      BY <1>2, <1>3, GoesTo
         DEF SettlePayment, TutoringInv, TutoringTypeOK, VerifierRows, VerifierPcs
<1>7. VerifierInv'
      BY <1>2, <1>3, <1>5, GoesTo DEF TutoringInv, VerifierInv
<1>8. HookInv'
      BY <1>2 DEF TutoringInv, HookInv
<1>9. BookingsPaidFor'
      BY <1>1, <1>2, <1>4, <1>5 DEF TutoringInv, BookingsPaidFor
<1>10. QED BY <1>6, <1>7, <1>8, <1>9 DEF TutoringInv

-----------------------------------------------------------------------------
LEMMA TutoringStepInv ==
    ASSUME TutoringInv, [TutoringNext]_tutoringVars
    PROVE  TutoringInv'
<1>1. CASE UNCHANGED tutoringVars
      BY <1>1 DEF tutoringVars, TutoringInv, TutoringTypeOK, VerifierInv, HookInv,
            BookingsPaidFor
<1>2. CASE TutoringNext
      BY <1>2, ConfirmInv, IntentInv, GatewayInv, BeginHookInv, CommitHookInv,
         BeginVerifyInv, LookInv, SettleCheckoutInv, SettlePaymentInv DEF TutoringNext
<1>3. QED BY <1>1, <1>2

\* Whichever calls between the services are lost, repeated or overlapped, the
\* three agree on what was paid (verifyPayment, settle_payment, handle).
THEOREM TutoringIsPaidFor == TutoringSpec => []BookingsPaidFor
<1>1. TutoringSpec => []TutoringInv
      BY TutoringInitInv, TutoringStepInv, PTL DEF TutoringSpec
<1>2. QED BY <1>1, PTL DEF TutoringInv

\* Bookings, payments and the requests on them keep their types.
LEMMA TutoringTypesHold == TutoringSpec => []TutoringTypeOK
<1>1. TutoringInv => TutoringTypeOK
      BY DEF TutoringInv
<1>2. QED BY <1>1, TutoringInitInv, TutoringStepInv, PTL DEF TutoringSpec

-----------------------------------------------------------------------------
(* The provider a capability uses: ProviderSwitch.                         *)

ProviderSettings == [provider : ProviderIds, mode : Modes, health : Health]
TestRows == [pc : {"new", "ping", "done"}, row : Switches \cup {NoSwitch}, read : ConfigRows]
SwitchTypes ==
    /\ configs \in [Switches -> ConfigRows]
    /\ switch \in [Switches -> SwitchRows] /\ awaiting \in [Switches -> SwitchRows]
    /\ test \in [HealthTests -> TestRows] /\ measured \in [Switches -> Health]

\* A row is made once, by a call that then is over, and only rows are tested.
SwitchRowsInv(s) ==
    /\ switch[s].pc # "done" => configs[s] = NoProvider
    /\ configs[s] = NoProvider => s \notin everLive /\ measured[s] = "unknown"

\* What a call is about to write, and into which row.
ReadRowOf(s, read) == IF s = NoSwitch THEN read = NoProvider
                  ELSE s \in ProviderRows /\ read \in ProviderSettings
Wants(at) ==
    /\ at.want \in ProviderSettings /\ ReadRowOf(at.row, at.read)
    /\ at.want.health = IF at.row = NoSwitch THEN "unknown" ELSE at.read.health
    /\ at.pc = "set" => at.want.mode # "live" /\ at.read.mode # "live"
SwitchingInv == \A c \in Switches : Switching(c) => Wants(switch[c])
AwaitingInv ==
    \A r \in Switches : awaiting[r].pc = "set" =>
       awaiting[r].want \in ProviderSettings /\ awaiting[r].row \in ProviderRows \cup {NoSwitch}
TestingInv ==
    \A t \in HealthTests : test[t].pc = "ping" =>
       test[t].row \in ProviderRows /\ test[t].read \in ProviderSettings

\* While calls of a kind do not overlap, what they have read is there.
IsThere(at) ==
    IF at.row = NoSwitch THEN ProviderRows = {}
    ELSE /\ configs[at.row].provider = at.read.provider
         /\ configs[at.row].mode = at.read.mode
SwitchAloneInv ==
    "switch" \notin rushed =>
       /\ \A s, t \in ProviderRows : s = t
       /\ \A c \in Switches : Switching(c) => IsThere(switch[c])
TestAloneInv ==
    "test" \notin rushed => \A t \in HealthTests : test[t].pc = "ping" =>
       configs[test[t].row].health = test[t].read.health

\* The mode of a row was approved, and its provider and health are the last ones.
ModeInv(s) ==
    /\ configs[s].mode = "live" => \E g \in granted : g.mode = "live"
    /\ s \in everLive /\ configs[s].mode = "sandbox" => \E g \in granted : g.mode = "sandbox"
    /\ configs[s].mode = "live" /\ "switch" \notin rushed
          => [provider |-> configs[s].provider, mode |-> "live"] \in granted
    /\ "test" \notin rushed /\ configs[s] # NoProvider => configs[s].health = measured[s]

SwitchInv ==
    /\ SwitchTypes /\ SwitchingInv /\ AwaitingInv /\ TestingInv
    /\ SwitchAloneInv /\ TestAloneInv
    /\ \A s \in Switches : SwitchRowsInv(s) /\ ModeInv(s)

LEMMA SettingsFacts ==
    /\ \A row \in ProviderSettings : row # NoProvider /\ row \in ConfigRows
    /\ \A row \in ConfigRows : row # NoProvider => row \in ProviderSettings
    /\ NoProvider \in ConfigRows /\ NoProvider.mode = "none"
<1>1. ASSUME NEW row \in ProviderSettings PROVE row # NoProvider
  <2>1. row.mode \in Modes /\ NoProvider.mode = "none"
        BY DEF ProviderSettings, NoProvider
  <2>2. QED BY <2>1 DEF Modes
<1>2. QED BY <1>1 DEF ProviderSettings, ConfigRows, NoProvider

\* What a commit leaves in a row.
LEMMA WrittenColumns ==
    ASSUME NEW read \in ProviderSettings, NEW want \in ProviderSettings, NEW now \in ProviderSettings
    PROVE  LET new == Written(read, want, now) IN
           /\ new \in ProviderSettings
           /\ new.provider = IF want.provider # read.provider THEN want.provider ELSE now.provider
           /\ new.mode = IF want.mode # read.mode THEN want.mode ELSE now.mode
           /\ new.health = IF want.health # read.health THEN want.health ELSE now.health
<1>1. DOMAIN now = {"provider", "mode", "health"}
      BY DEF ProviderSettings
<1>2. Written(read, want, now) =
         [provider |-> IF want.provider # read.provider THEN want.provider ELSE now.provider,
          mode |-> IF want.mode # read.mode THEN want.mode ELSE now.mode,
          health |-> IF want.health # read.health THEN want.health ELSE now.health]
      BY <1>1 DEF Written
<1>3. QED BY <1>2 DEF ProviderSettings

\* The row that a call finds.
LEMMA TheRow ==
    ASSUME SwitchInv, NEW s, s \in ProviderRows \cup {NoSwitch}
    PROVE  /\ ReadRowOf(s, Row(s)) /\ Row(s) \in ConfigRows
           /\ s # NoSwitch => Row(s) = configs[s] /\ Row(s).health \in Health
<1>1. CASE s = NoSwitch
      BY <1>1, SettingsFacts DEF ReadRowOf, Row
<1>2. CASE s # NoSwitch
  <2>1. s \in ProviderRows /\ configs[s] \in ConfigRows /\ configs[s] # NoProvider
        BY <1>2 DEF ProviderRows, SwitchInv, SwitchTypes
  <2>2. configs[s] \in ProviderSettings
        BY <2>1, SettingsFacts
  <2>3. QED BY <1>2, <2>1, <2>2 DEF ReadRowOf, Row, ProviderSettings
<1>3. QED BY <1>1, <1>2

LEMMA ConfigIsThere ==
    /\ TheConfig \in ProviderRows \cup {NoSwitch}
    /\ TheConfig = NoSwitch => ProviderRows = {}
BY NoSwitchAssumption DEF TheConfig, ProviderRows

\* A call that has read, and written nothing yet.
LEMMA BeginSwitchInv ==
    ASSUME SwitchInv, NEW c \in Switches, NEW new \in SwitchRows, switch[c].pc = "new",
           switch' = [switch EXCEPT ![c] = new],
           new.pc \in {"set", "approved"} =>
              Wants(new) /\ ("switch" \notin rushed => IsThere(new)),
           awaiting' \in [Switches -> SwitchRows],
           \A r \in Switches : awaiting'[r].pc = "set" =>
              /\ awaiting'[r].want \in ProviderSettings
              /\ awaiting'[r].row \in ProviderRows \cup {NoSwitch},
           UNCHANGED <<configs, test, granted, everLive, measured, rushed>>
    PROVE  SwitchInv'
<1>1. /\ switch' \in [Switches -> SwitchRows] /\ switch'[c] = new
      /\ \A d \in Switches : d # c => switch'[d] = switch[d]
      BY DEF SwitchInv, SwitchTypes
<1>2. ProviderRows' = ProviderRows
      BY DEF ProviderRows
<1>3. SwitchTypes'
      BY <1>1 DEF SwitchInv, SwitchTypes
<1>4. ASSUME NEW d \in Switches, Switching(d)'
      PROVE  /\ Wants(switch'[d])
             /\ "switch" \notin rushed => IsThere(switch'[d])
  <2>1. CASE d = c
        BY <1>1, <1>4, <2>1 DEF Switching
  <2>2. CASE d # c
        BY <1>1, <1>4, <2>2 DEF Switching, SwitchInv, SwitchingInv, SwitchAloneInv
  <2>3. QED BY <2>1, <2>2
<1>5. ASSUME NEW at PROVE (Wants(at)' <=> Wants(at)) /\ (IsThere(at)' <=> IsThere(at))
      BY <1>2 DEF Wants, ReadRowOf, IsThere
<1>6. SwitchingInv' /\ SwitchAloneInv'
  <2>1. ASSUME NEW d \in Switches, Switching(d)'
        PROVE  Wants(switch[d])' /\ ("switch" \notin rushed' => IsThere(switch[d])')
        BY <1>2, <1>4, <2>1 DEF Wants, ReadRowOf, IsThere
  <2>2. QED BY <1>2, <2>1 DEF SwitchingInv, SwitchAloneInv, SwitchInv
<1>7. AwaitingInv' /\ TestingInv' /\ TestAloneInv'
      BY <1>2 DEF SwitchInv, AwaitingInv, TestingInv, TestAloneInv
<1>8. ASSUME NEW s \in Switches PROVE SwitchRowsInv(s)' /\ ModeInv(s)'
  <2>1. switch'[s].pc # "done" => switch[s].pc # "done"
        BY <1>1
  <2>2. QED BY <2>1 DEF SwitchInv, SwitchRowsInv, ModeInv
<1>9. QED BY <1>3, <1>6, <1>7, <1>8 DEF SwitchInv

LEMMA SetProviderInv ==
    ASSUME SwitchInv, NEW c \in Switches, NEW provider \in ProviderIds, NEW mode \in Modes,
           SetProvider(c, provider, mode)
    PROVE  SwitchInv'
<1>1. PICK s : s = TheConfig
      OBVIOUS
<1> DEFINE want == [provider |-> provider, mode |-> mode,
                    health |-> IF s = NoSwitch THEN "unknown" ELSE Row(s).health]
           asked == [pc |-> "set", row |-> s, read |-> Row(s), want |-> want]
           over == [switch[c] EXCEPT !.pc = "done"]
<1>2. /\ switch[c].pc = "new"
      /\ UNCHANGED <<configs, test, granted, everLive, measured, rushed>>
      /\ IF NeedsDual(Row(s), mode)
         THEN /\ awaiting' = [awaiting EXCEPT ![c] = asked]
              /\ switch' = [switch EXCEPT ![c] = over]
         ELSE switch' = [switch EXCEPT ![c] = asked] /\ awaiting' = awaiting
      BY <1>1 DEF SetProvider, EndsSwitch, SwitchInv, SwitchTypes
<1>3. /\ s \in ProviderRows \cup {NoSwitch} /\ s \in Switches \cup {NoSwitch}
      /\ s = NoSwitch => ProviderRows = {}
      BY <1>1, ConfigIsThere DEF ProviderRows
<1>4. /\ ReadRowOf(s, Row(s)) /\ Row(s) \in ConfigRows
      /\ s # NoSwitch => Row(s) = configs[s] /\ Row(s).health \in Health
      BY <1>3, TheRow
<1>5. want \in ProviderSettings /\ want.mode = mode /\ want.health = IF s = NoSwitch THEN "unknown" ELSE Row(s).health
      BY <1>4 DEF ProviderSettings, Health
<1>6. over \in SwitchRows /\ over.pc = "done"
      BY DEF SwitchInv, SwitchTypes, SwitchRows
<1> HIDE DEF want, over
<1>7. /\ asked \in SwitchRows /\ asked.pc = "set" /\ asked.row = s /\ asked.read = Row(s)
      /\ asked.want = want
      BY <1>3, <1>4, <1>5, SettingsFacts DEF SwitchRows
<1> HIDE DEF asked
<1>8. awaiting' \in [Switches -> SwitchRows]
      BY <1>2, <1>7 DEF SwitchInv, SwitchTypes
<1>9. ASSUME NEW r \in Switches, awaiting'[r].pc = "set"
      PROVE  awaiting'[r].want \in ProviderSettings /\ awaiting'[r].row \in ProviderRows \cup {NoSwitch}
      BY <1>2, <1>3, <1>5, <1>7, <1>9 DEF SwitchInv, SwitchTypes, AwaitingInv
<1>10. CASE NeedsDual(Row(s), mode)
  <2>1. over.pc \notin {"set", "approved"}
        BY <1>6
  <2>2. QED BY <1>2, <1>6, <1>8, <1>9, <1>10, <2>1, BeginSwitchInv
<1>11. CASE ~NeedsDual(Row(s), mode)
  <2>1. Wants(asked)
        BY <1>4, <1>5, <1>7, <1>11 DEF Wants, NeedsDual
  <2>2. IsThere(asked)
        BY <1>3, <1>4, <1>7 DEF IsThere
  <2>3. QED BY <1>2, <1>7, <1>8, <1>9, <1>11, <2>1, <2>2, BeginSwitchInv
<1>12. QED BY <1>10, <1>11

LEMMA ExecuteSwitchInv ==
    ASSUME SwitchInv, NEW c \in Switches, NEW r \in Switches, ExecuteSwitch(c, r)
    PROVE  SwitchInv'
<1>1. PICK s : s = IF awaiting[r].row # NoSwitch THEN awaiting[r].row ELSE TheConfig
      OBVIOUS
<1> DEFINE health == Row(s).health
           want == [awaiting[r].want EXCEPT !.health = health]
           new == [pc |-> "approved", row |-> s, read |-> Row(s), want |-> want]
<1>2. /\ switch[c].pc = "new" /\ awaiting[r].pc = "set"
      /\ UNCHANGED <<configs, test, granted, everLive, measured, rushed>>
      /\ switch' = [switch EXCEPT ![c] = new]
      /\ awaiting' = [awaiting EXCEPT ![r] = [awaiting[r] EXCEPT !.pc = "done"]]
      BY <1>1 DEF ExecuteSwitch, SwitchInv, SwitchTypes
<1>3. /\ s \in ProviderRows \cup {NoSwitch} /\ s \in Switches \cup {NoSwitch}
      /\ s # NoSwitch
  <2>1. s \in ProviderRows \cup {NoSwitch} /\ s \in Switches \cup {NoSwitch}
        BY <1>1, <1>2, ConfigIsThere DEF SwitchInv, AwaitingInv, ProviderRows
  <2>2. awaiting[r].row = NoSwitch => Cardinality(ProviderRows) = 1
        BY DEF ExecuteSwitch
  <2>3. awaiting[r].row = NoSwitch => ProviderRows # {}
        BY <2>2, FS_EmptySet
  <2>4. QED BY <1>1, <2>1, <2>3, ConfigIsThere
<1>4. /\ ReadRowOf(s, Row(s)) /\ Row(s) \in ConfigRows
      /\ s # NoSwitch => Row(s) = configs[s] /\ Row(s).health \in Health
      BY <1>3, TheRow
<1>5. awaiting[r].want \in ProviderSettings
      BY <1>2 DEF SwitchInv, AwaitingInv
<1>6. health \in Health
      BY <1>3, <1>4
<1>7. want \in ProviderSettings /\ want.health = health
      BY <1>5, <1>6 DEF ProviderSettings
<1> HIDE DEF want
<1>8. /\ new \in SwitchRows /\ new.pc = "approved" /\ new.row = s /\ new.read = Row(s)
      /\ new.want = want
      BY <1>3, <1>4, <1>7, SettingsFacts DEF SwitchRows
<1> HIDE DEF new
<1>9. Wants(new) /\ IsThere(new)
      BY <1>3, <1>4, <1>7, <1>8 DEF Wants, IsThere
<1>10. awaiting' \in [Switches -> SwitchRows]
      BY <1>2 DEF SwitchInv, SwitchTypes, SwitchRows
<1>11. ASSUME NEW q \in Switches, awaiting'[q].pc = "set"
       PROVE  awaiting'[q].want \in ProviderSettings /\ awaiting'[q].row \in ProviderRows \cup {NoSwitch}
  <2>1. q # r
        BY <1>2, <1>11 DEF SwitchInv, SwitchTypes, SwitchRows
  <2>2. QED BY <1>2, <1>11, <2>1 DEF SwitchInv, SwitchTypes, AwaitingInv
<1>12. QED BY <1>2, <1>8, <1>9, <1>10, <1>11, BeginSwitchInv

\* The row that the commit of a call leaves, and the one it was.
LEMMA CommitSwitchRow ==
    ASSUME SwitchInv, NEW c \in Switches, Switching(c), NEW s,
           s = IF switch[c].row = NoSwitch THEN c ELSE switch[c].row,
           NEW row, row = NewColumns(c)
    PROVE  /\ s \in Switches /\ row \in ProviderSettings
           /\ switch[c].row = NoSwitch =>
                 /\ s = c /\ row = switch[c].want /\ row.health = "unknown"
                 /\ configs[s] = NoProvider /\ s \notin everLive /\ measured[s] = "unknown"
           /\ switch[c].row # NoSwitch =>
                 /\ configs[s] \in ProviderSettings /\ row.health = configs[s].health
                 /\ row.mode = configs[s].mode \/ row.mode = switch[c].want.mode
                 /\ IsThere(switch[c]) => row.mode = switch[c].want.mode
                                          /\ row.provider = switch[c].want.provider
           /\ switch[c].pc = "set" =>
                 /\ switch[c].want.mode = "sandbox"
                 /\ switch[c].row # NoSwitch => row.mode = configs[s].mode
<1>1. /\ Wants(switch[c]) /\ SwitchRowsInv(c) /\ switch[c].pc \in {"set", "approved"}
      /\ switch[c].want \in ProviderSettings
      BY DEF SwitchInv, SwitchingInv, Switching, Wants
<1>2. CASE switch[c].row = NoSwitch
  <2>1. row = switch[c].want /\ s = c
        BY <1>2 DEF NewColumns
  <2>2. configs[s] = NoProvider /\ s \notin everLive /\ measured[s] = "unknown"
        BY <1>1, <2>1 DEF SwitchRowsInv
  <2>3. switch[c].want.mode \in {"sandbox", "live"}
        BY <1>1 DEF ProviderSettings, Modes
  <2>4. QED BY <1>1, <1>2, <2>1, <2>2, <2>3 DEF Wants
<1>3. CASE switch[c].row # NoSwitch
  <2>1. /\ s \in ProviderRows /\ switch[c].read \in ProviderSettings
        /\ switch[c].want.health = switch[c].read.health
        /\ switch[c].pc = "set" => switch[c].want.mode # "live" /\ switch[c].read.mode # "live"
        BY <1>1, <1>3 DEF Wants, ReadRowOf
  <2>2. s \in Switches /\ configs[s] \in ConfigRows /\ configs[s] # NoProvider
        BY <2>1 DEF ProviderRows, SwitchInv, SwitchTypes
  <2>3. configs[s] \in ProviderSettings
        BY <2>2, SettingsFacts
  <2>4. PICK read \in ProviderSettings, want \in ProviderSettings, now \in ProviderSettings :
              read = switch[c].read /\ want = switch[c].want /\ now = configs[s]
        BY <1>1, <2>1, <2>3
  <2>5. row = Written(read, want, now)
        BY <1>3, <2>4 DEF NewColumns
  <2>6. /\ row \in ProviderSettings
        /\ row.provider = IF want.provider # read.provider THEN want.provider ELSE now.provider
        /\ row.mode = IF want.mode # read.mode THEN want.mode ELSE now.mode
        /\ row.health = IF want.health # read.health THEN want.health ELSE now.health
        BY <2>5, WrittenColumns
  <2>7. \A at \in ProviderSettings : at.mode \in {"sandbox", "live"}
        BY DEF ProviderSettings, Modes
  <2>8. IsThere(switch[c]) => now.provider = read.provider /\ now.mode = read.mode
        BY <1>3, <2>4 DEF IsThere
  <2>9. QED BY <1>3, <2>1, <2>2, <2>3, <2>4, <2>6, <2>7, <2>8
<1>4. QED BY <1>2, <1>3

LEMMA CommitSwitchInv ==
    ASSUME SwitchInv, NEW c \in Switches, CommitSwitch(c)
    PROVE  SwitchInv'
<1>1. PICK s : s = IF switch[c].row = NoSwitch THEN c ELSE switch[c].row
      OBVIOUS
<1>2. PICK row : row = NewColumns(c)
      OBVIOUS
<1> DEFINE over == [switch[c] EXCEPT !.pc = "done"]
           leave == [provider |-> switch[c].want.provider, mode |-> switch[c].want.mode]
<1>3. /\ Switching(c) /\ switch[c].pc \in {"set", "approved"}
      /\ configs' = [configs EXCEPT ![s] = row]
      /\ everLive' = IF row.mode = "live" THEN everLive \cup {s} ELSE everLive
      /\ granted' = IF switch[c].pc = "approved" THEN granted \cup {leave} ELSE granted
      /\ rushed' = rushed \cup {"switch" : d \in {e \in Switches \ {c} : Switching(e)}}
      /\ switch' = [switch EXCEPT ![c] = over]
      /\ UNCHANGED <<awaiting, test, measured>>
      BY <1>1, <1>2 DEF CommitSwitch, EndsSwitch, Switching, SwitchInv, SwitchTypes
<1>4. /\ s \in Switches /\ row \in ProviderSettings
      /\ switch[c].row = NoSwitch =>
            /\ s = c /\ row = switch[c].want /\ row.health = "unknown"
            /\ configs[s] = NoProvider /\ s \notin everLive /\ measured[s] = "unknown"
      /\ switch[c].row # NoSwitch =>
            /\ configs[s] \in ProviderSettings /\ row.health = configs[s].health
            /\ row.mode = configs[s].mode \/ row.mode = switch[c].want.mode
            /\ IsThere(switch[c]) => row.mode = switch[c].want.mode
                                     /\ row.provider = switch[c].want.provider
      /\ switch[c].pc = "set" =>
            /\ switch[c].want.mode = "sandbox"
            /\ switch[c].row # NoSwitch => row.mode = configs[s].mode
      BY <1>1, <1>2, <1>3, CommitSwitchRow
<1>5. over \in SwitchRows /\ over.pc = "done"
      BY DEF SwitchInv, SwitchTypes, SwitchRows
<1> HIDE DEF over
<1>6. /\ switch' \in [Switches -> SwitchRows] /\ switch'[c] = over
      /\ \A d \in Switches : d # c => switch'[d] = switch[d]
      BY <1>3, <1>5 DEF SwitchInv, SwitchTypes
<1>7. /\ configs' \in [Switches -> ConfigRows] /\ configs'[s] = row
      /\ \A q \in Switches : q # s => configs'[q] = configs[q]
      BY <1>3, <1>4, SettingsFacts DEF SwitchInv, SwitchTypes
<1>8. ProviderRows' = ProviderRows \cup {s}
      BY <1>4, <1>7, SettingsFacts DEF ProviderRows
<1>9. \A d \in Switches : Switching(d)' => d # c /\ Switching(d)
      BY <1>5, <1>6 DEF Switching
<1>10. /\ "switch" \notin rushed' => "switch" \notin rushed
                                     /\ \A d \in Switches : ~Switching(d)'
       /\ "test" \notin rushed' => "test" \notin rushed
       BY <1>3, <1>9
<1>11. SwitchTypes'
       BY <1>3, <1>6, <1>7 DEF SwitchInv, SwitchTypes
<1>12. SwitchingInv'
  <2>1. ASSUME NEW d \in Switches, Switching(d)' PROVE Wants(switch[d])'
    <3>1. Switching(d) /\ switch'[d] = switch[d]
          BY <1>6, <1>9, <2>1
    <3>2. Wants(switch[d])
          BY <3>1 DEF SwitchInv, SwitchingInv
    <3>3. QED BY <1>8, <3>1, <3>2 DEF Wants, ReadRowOf
  <2>2. QED BY <2>1 DEF SwitchingInv
<1>13. AwaitingInv' /\ TestingInv'
       BY <1>3, <1>8 DEF SwitchInv, AwaitingInv, TestingInv
<1>14. SwitchAloneInv'
  <2>1. SUFFICES ASSUME "switch" \notin rushed' PROVE \A p, q \in ProviderRows' : p = q
        BY <1>10 DEF SwitchAloneInv
  <2>2. /\ \A p, q \in ProviderRows : p = q
        /\ IsThere(switch[c])
        BY <1>3, <1>10, <2>1 DEF SwitchInv, SwitchAloneInv
  <2>3. CASE switch[c].row = NoSwitch
        BY <1>8, <2>2, <2>3 DEF IsThere
  <2>4. CASE switch[c].row # NoSwitch
    <3>1. s \in ProviderRows
          BY <1>4, <2>4, SettingsFacts DEF ProviderRows
    <3>2. QED BY <1>8, <2>2, <3>1
  <2>5. QED BY <2>3, <2>4
<1>15. TestAloneInv'
  <2>1. ASSUME "test" \notin rushed', NEW t \in HealthTests, test[t].pc = "ping"
        PROVE  configs'[test[t].row].health = test[t].read.health
    <3>1. /\ test[t].row \in ProviderRows /\ test[t].row \in Switches
          /\ configs[test[t].row] # NoProvider
          /\ configs[test[t].row].health = test[t].read.health
          BY <1>10, <2>1 DEF SwitchInv, TestingInv, TestAloneInv, ProviderRows
    <3>2. test[t].row = s => configs'[s].health = configs[s].health
          BY <1>4, <1>7, <3>1
    <3>3. QED BY <1>7, <3>1, <3>2
  <2>2. QED BY <1>3, <2>1 DEF TestAloneInv
<1>16. ASSUME NEW q \in Switches PROVE SwitchRowsInv(q)'
  <2>1. SwitchRowsInv(q)
        BY DEF SwitchInv
  <2>2. CASE q = s
    <3>1. switch'[s].pc = "done"
      <4>1. CASE s = c
            BY <1>5, <1>6, <4>1
      <4>2. CASE s # c
        <5>1. configs[s] # NoProvider
              BY <1>1, <1>4, <4>2, SettingsFacts
        <5>2. QED BY <1>4, <1>6, <2>1, <2>2, <4>2, <5>1 DEF SwitchRowsInv
      <4>3. QED BY <4>1, <4>2
    <3>2. configs'[s] # NoProvider
          BY <1>4, <1>7, SettingsFacts
    <3>3. QED BY <2>2, <3>1, <3>2 DEF SwitchRowsInv
  <2>3. CASE q # s
    <3>1. switch'[q].pc # "done" => switch[q].pc # "done"
          BY <1>5, <1>6
    <3>2. configs'[q] = configs[q] /\ (q \in everLive' <=> q \in everLive) /\ measured' = measured
          BY <1>3, <1>7, <2>3
    <3>3. QED BY <2>1, <3>1, <3>2 DEF SwitchRowsInv
  <2>4. QED BY <2>2, <2>3
<1>17. granted \subseteq granted' /\ (switch[c].pc = "approved" =>
          leave \in granted' /\ leave.mode = switch[c].want.mode)
       BY <1>3
<1>18. ASSUME NEW q \in Switches PROVE ModeInv(q)'
  <2>1. ModeInv(q)
        BY DEF SwitchInv
  <2>2. CASE q # s
        BY <1>3, <1>7, <1>10, <1>17, <2>1, <2>2 DEF ModeInv
  <2>3. CASE q = s
    <3>1. row.mode \in {"sandbox", "live"}
          BY <1>4 DEF ProviderSettings, Modes
    <3>2. \/ row.mode = configs[s].mode /\ switch[c].row # NoSwitch
          \/ switch[c].pc = "approved" /\ row.mode = switch[c].want.mode
          \/ switch[c].row = NoSwitch /\ row.mode = "sandbox" /\ s \notin everLive
          BY <1>3, <1>4
    <3>3. row.mode = "live" => \E g \in granted' : g.mode = "live"
          BY <1>17, <2>1, <2>3, <3>2 DEF ModeInv
    <3>4. s \in everLive' /\ row.mode = "sandbox" => \E g \in granted' : g.mode = "sandbox"
      <4>1. s \in everLive' /\ row.mode = "sandbox" => s \in everLive
            BY <1>3
      <4>2. QED BY <1>17, <2>1, <2>3, <3>2, <4>1 DEF ModeInv
    <3>5. ASSUME row.mode = "live", "switch" \notin rushed'
          PROVE  [provider |-> row.provider, mode |-> "live"] \in granted'
      <4>1. IsThere(switch[c])
            BY <1>3, <1>10, <3>5 DEF SwitchInv, SwitchAloneInv
      <4>2. row.mode = switch[c].want.mode /\ row.provider = switch[c].want.provider
            BY <1>4, <4>1
      <4>3. switch[c].pc = "approved"
            BY <1>3, <1>4, <3>5, <4>2
      <4>4. leave = [provider |-> row.provider, mode |-> "live"]
            BY <3>5, <4>2
      <4>5. QED BY <1>17, <4>3, <4>4
    <3>6. "test" \notin rushed' => row.health = measured[s]
      <4>1. switch[c].row # NoSwitch => configs[s] # NoProvider
            BY <1>4, SettingsFacts
      <4>2. QED BY <1>4, <1>10, <2>1, <2>3, <4>1 DEF ModeInv
    <3>7. configs'[q] = row /\ measured'[q] = measured[s]
          BY <1>3, <1>7, <2>3
    <3>8. QED BY <2>3, <3>3, <3>4, <3>5, <3>6, <3>7 DEF ModeInv
  <2>4. QED BY <2>2, <2>3
<1>19. QED BY <1>11, <1>12, <1>13, <1>14, <1>15, <1>16, <1>18 DEF SwitchInv

LEMMA BeginTestInv ==
    ASSUME SwitchInv, NEW t \in HealthTests, NEW s \in Switches, BeginTest(t, s)
    PROVE  SwitchInv'
<1> DEFINE new == [pc |-> "ping", row |-> s, read |-> configs[s]]
<1>1. /\ s \in ProviderRows /\ test' = [test EXCEPT ![t] = new]
      /\ UNCHANGED <<configs, switch, awaiting, granted, everLive, measured, rushed>>
      BY DEF BeginTest
<1>2. configs[s] \in ConfigRows /\ configs[s] \in ProviderSettings
      BY <1>1, SettingsFacts DEF ProviderRows, SwitchInv, SwitchTypes
<1>3. new \in TestRows /\ new.pc = "ping" /\ new.row = s /\ new.read = configs[s]
      BY <1>2 DEF TestRows
<1> HIDE DEF new
<1>4. /\ test' \in [HealthTests -> TestRows] /\ test'[t] = new
      /\ \A u \in HealthTests : u # t => test'[u] = test[u]
      BY <1>1, <1>3 DEF SwitchInv, SwitchTypes
<1>5. ProviderRows' = ProviderRows
      BY <1>1 DEF ProviderRows
<1>6. SwitchTypes'
      BY <1>1, <1>4 DEF SwitchInv, SwitchTypes
<1>7. SwitchingInv' /\ AwaitingInv' /\ SwitchAloneInv'
      BY <1>1, <1>5 DEF SwitchInv, SwitchingInv, AwaitingInv, SwitchAloneInv, Switching,
         Wants, ReadRowOf, IsThere
<1>8. TestingInv' /\ TestAloneInv'
  <2>1. ASSUME NEW u \in HealthTests, test'[u].pc = "ping"
        PROVE  /\ test'[u].row \in ProviderRows /\ test'[u].read \in ProviderSettings
               /\ "test" \notin rushed =>
                     configs[test'[u].row].health = test'[u].read.health
    <3>1. CASE u = t
          BY <1>1, <1>2, <1>3, <1>4, <3>1
    <3>2. CASE u # t
          BY <1>4, <2>1, <3>2 DEF SwitchInv, TestingInv, TestAloneInv
    <3>3. QED BY <3>1, <3>2
  <2>2. QED BY <1>1, <1>5, <2>1 DEF TestingInv, TestAloneInv
<1>9. ASSUME NEW q \in Switches PROVE SwitchRowsInv(q)' /\ ModeInv(q)'
      BY <1>1 DEF SwitchInv, SwitchRowsInv, ModeInv
<1>10. QED BY <1>6, <1>7, <1>8, <1>9 DEF SwitchInv

LEMMA CommitTestInv ==
    ASSUME SwitchInv, NEW t \in HealthTests, NEW health \in Health, CommitTest(t, health)
    PROVE  SwitchInv'
<1>1. PICK s : s = test[t].row
      OBVIOUS
<1>2. PICK row : row = Written(test[t].read, [test[t].read EXCEPT !.health = health], configs[s])
      OBVIOUS
<1> DEFINE over == [test[t] EXCEPT !.pc = "done"]
<1>3. /\ test[t].pc = "ping" /\ s \in ProviderRows /\ s \in Switches /\ test[t].read \in ProviderSettings
      BY <1>1 DEF CommitTest, SwitchInv, TestingInv, ProviderRows
<1>4. /\ configs' = [configs EXCEPT ![s] = row]
      /\ measured' = [measured EXCEPT ![s] = health]
      /\ rushed' = rushed \cup {"test" : u \in {v \in HealthTests \ {t} : test[v].pc = "ping"}}
      /\ test' = [test EXCEPT ![t] = over]
      /\ UNCHANGED <<switch, awaiting, granted, everLive>>
      BY <1>1, <1>2, <1>3 DEF CommitTest, TestResult, SwitchInv, SwitchTypes
<1>5. configs[s] \in ProviderSettings /\ configs[s] # NoProvider
      BY <1>3, SettingsFacts DEF ProviderRows, SwitchInv, SwitchTypes
<1>6. /\ row \in ProviderSettings /\ row.provider = configs[s].provider /\ row.mode = configs[s].mode
      /\ row.health = IF health # test[t].read.health THEN health ELSE configs[s].health
  <2>1. PICK read \in ProviderSettings, now \in ProviderSettings : read = test[t].read /\ now = configs[s]
        BY <1>3, <1>5
  <2>2. PICK want \in ProviderSettings : want = [read EXCEPT !.health = health]
        BY DEF ProviderSettings
  <2>3. want.provider = read.provider /\ want.mode = read.mode /\ want.health = health
        BY <2>2 DEF ProviderSettings
  <2>4. row = Written(read, want, now)
        BY <1>2, <2>1, <2>2
  <2>5. QED BY <2>1, <2>3, <2>4, WrittenColumns
<1>7. over \in TestRows /\ over.pc = "done"
      BY DEF SwitchInv, SwitchTypes, TestRows
<1> HIDE DEF over
<1>8. /\ test' \in [HealthTests -> TestRows] /\ test'[t] = over
      /\ \A u \in HealthTests : u # t => test'[u] = test[u]
      BY <1>4, <1>7 DEF SwitchInv, SwitchTypes
<1>9. /\ configs' \in [Switches -> ConfigRows] /\ configs'[s] = row
      /\ \A q \in Switches : q # s => configs'[q] = configs[q]
      BY <1>3, <1>4, <1>6, SettingsFacts DEF SwitchInv, SwitchTypes
<1>10. ProviderRows' = ProviderRows
       BY <1>3, <1>6, <1>9, SettingsFacts DEF ProviderRows
<1>11. /\ "switch" \notin rushed' => "switch" \notin rushed
       /\ "test" \notin rushed' => "test" \notin rushed
                                   /\ \A u \in HealthTests : test'[u].pc # "ping"
       BY <1>4, <1>7, <1>8
<1>12. SwitchTypes'
       BY <1>4, <1>8, <1>9 DEF SwitchInv, SwitchTypes
<1>13. AwaitingInv' /\ SwitchingInv'
       BY <1>4, <1>10 DEF SwitchInv, SwitchingInv, AwaitingInv, Switching, Wants, ReadRowOf
<1>14. SwitchAloneInv'
  <2>1. ASSUME NEW c \in Switches, Switching(c), IsThere(switch[c]) PROVE IsThere(switch[c])'
        BY <1>4, <1>6, <1>9, <1>10, <2>1 DEF IsThere, SwitchInv, SwitchingInv, Wants, ReadRowOf, ProviderRows
  <2>2. \A c \in Switches : Switching(c)' <=> Switching(c)
        BY <1>4 DEF Switching
  <2>3. QED BY <1>10, <1>11, <2>1, <2>2 DEF SwitchInv, SwitchAloneInv
<1>15. TestingInv' /\ TestAloneInv'
  <2>1. ASSUME NEW u \in HealthTests, test'[u].pc = "ping"
        PROVE  test'[u].row \in ProviderRows /\ test'[u].read \in ProviderSettings
        BY <1>7, <1>8, <2>1 DEF SwitchInv, TestingInv
  <2>2. QED BY <1>10, <1>11, <2>1 DEF TestingInv, TestAloneInv
<1>16. ASSUME NEW q \in Switches PROVE SwitchRowsInv(q)' /\ ModeInv(q)'
  <2>1. SwitchRowsInv(q) /\ ModeInv(q)
        BY DEF SwitchInv
  <2>2. CASE q # s
    <3>1. configs'[q] = configs[q] /\ measured'[q] = measured[q]
          BY <1>4, <1>9, <2>2
    <3>2. QED BY <1>4, <1>11, <2>1, <3>1 DEF SwitchRowsInv, ModeInv
  <2>3. CASE q = s
    <3>1. configs'[s] # NoProvider /\ configs'[s].mode = configs[s].mode
          /\ configs'[s].provider = configs[s].provider
          BY <1>6, <1>9, SettingsFacts
    <3>2. SwitchRowsInv(q)'
          BY <1>4, <1>5, <2>1, <2>3, <3>1 DEF SwitchRowsInv
    <3>3. "test" \notin rushed' => row.health = health
      <4>1. "test" \notin rushed => configs[s].health = test[t].read.health
            BY <1>1, <1>3 DEF SwitchInv, TestAloneInv
      <4>2. QED BY <1>6, <1>11, <4>1
    <3>4. "test" \notin rushed' => configs'[s].health = measured'[s]
      <4>1. measured'[s] = health
            BY <1>3, <1>4 DEF SwitchInv, SwitchTypes
      <4>2. QED BY <1>9, <3>3, <4>1
    <3>5. QED BY <1>4, <1>11, <2>1, <2>3, <3>1, <3>2, <3>4 DEF ModeInv
  <2>4. QED BY <2>2, <2>3
<1>17. QED BY <1>12, <1>13, <1>14, <1>15, <1>16 DEF SwitchInv

LEMMA SwitchStart == SwitchInit => SwitchInv
<1> SUFFICES ASSUME SwitchInit PROVE SwitchInv
    OBVIOUS
<1>1. PICK cast \in SwitchCasts, provider \in ProviderIds, seed \in Switches \cup {NoSwitch} :
         /\ seed \notin cast
         /\ configs = [s \in Switches |-> IF s # seed THEN NoProvider
               ELSE [provider |-> provider, mode |-> "sandbox", health |-> "unknown"]]
         /\ switch = [s \in Switches |->
               [IdleSwitch EXCEPT !.pc = IF s \in cast THEN "new" ELSE "done"]]
         /\ test = [t \in HealthTests |->
               [pc |-> IF t \in cast THEN "new" ELSE "done",
                row |-> NoSwitch, read |-> NoProvider]]
      BY DEF SwitchInit
<1>2. /\ awaiting = [s \in Switches |-> IdleSwitch]
      /\ granted = {} /\ everLive = {} /\ rushed = {}
      /\ measured = [s \in Switches |-> "unknown"]
      BY DEF SwitchInit
<1>3. IdleSwitch \in SwitchRows /\ IdleSwitch.pc = "new"
      BY SettingsFacts DEF IdleSwitch, SwitchRows
<1>4. /\ switch \in [Switches -> SwitchRows]
      /\ \A s \in Switches : switch[s].pc \in {"new", "done"}
                             /\ (switch[s].pc # "done" => s \in cast)
      BY <1>1, <1>3 DEF SwitchRows
<1>5. /\ test \in [HealthTests -> TestRows] /\ \A t \in HealthTests : test[t].pc # "ping"
      BY <1>1, SettingsFacts DEF TestRows
<1>6. PICK row \in ProviderSettings : row = [provider |-> provider, mode |-> "sandbox", health |-> "unknown"]
      BY DEF ProviderSettings, Modes, Health
<1>7. row.mode = "sandbox" /\ row.health = "unknown"
      BY <1>6
<1>8. \A s \in Switches : configs[s] = IF s # seed THEN NoProvider ELSE row
      BY <1>1, <1>6
<1>9. configs \in [Switches -> ConfigRows]
      BY <1>1, <1>6, SettingsFacts
<1>10. SwitchTypes
       BY <1>2, <1>3, <1>4, <1>5, <1>9 DEF SwitchTypes, Health
<1>11. SwitchingInv /\ AwaitingInv /\ TestingInv /\ TestAloneInv
       BY <1>2, <1>3, <1>4, <1>5
          DEF SwitchingInv, AwaitingInv, TestingInv, TestAloneInv, Switching
<1>12. SwitchAloneInv
  <2>1. \A s \in ProviderRows : s = seed
        BY <1>8 DEF ProviderRows
  <2>2. \A c \in Switches : ~Switching(c)
        BY <1>4 DEF Switching
  <2>3. QED BY <2>1, <2>2 DEF SwitchAloneInv
<1>13. ASSUME NEW s \in Switches PROVE SwitchRowsInv(s) /\ ModeInv(s)
  <2>1. SwitchRowsInv(s)
        BY <1>1, <1>2, <1>4, <1>8 DEF SwitchRowsInv
  <2>2. ModeInv(s)
        BY <1>2, <1>7, <1>8, SettingsFacts DEF ModeInv
  <2>3. QED BY <2>1, <2>2
<1>14. QED BY <1>10, <1>11, <1>12, <1>13 DEF SwitchInv

\* What is proved of every state of the provider switch.
LEMMA SwitchAlways == SwitchSpec => []SwitchInv
<1>1. SwitchInv /\ [SwitchNext]_switchVars => SwitchInv'
  <2>1. SUFFICES ASSUME SwitchInv, [SwitchNext]_switchVars PROVE SwitchInv'
        OBVIOUS
  <2>2. CASE UNCHANGED switchVars
        BY <2>1, <2>2 DEF switchVars, SwitchInv, SwitchTypes, SwitchingInv, AwaitingInv, TestingInv,
           SwitchAloneInv, TestAloneInv, SwitchRowsInv, ModeInv, Switching, Wants, ReadRowOf, IsThere,
           ProviderRows
  <2>3. ASSUME NEW c \in Switches, CommitSwitch(c) \/ \E r \in Switches : ExecuteSwitch(c, r)
        PROVE  SwitchInv'
        BY <2>1, <2>3, CommitSwitchInv, ExecuteSwitchInv
  <2>4. ASSUME NEW c \in Switches, NEW provider \in ProviderIds, NEW mode \in Modes,
               SetProvider(c, provider, mode)
        PROVE  SwitchInv'
        BY <2>1, <2>4, SetProviderInv
  <2>5. ASSUME NEW t \in HealthTests,
               (\E s \in Switches : BeginTest(t, s)) \/ \E health \in Health : CommitTest(t, health)
        PROVE  SwitchInv'
        BY <2>1, <2>5, BeginTestInv, CommitTestInv
  <2>6. QED BY <2>1, <2>2, <2>3, <2>4, <2>5 DEF SwitchNext
<1>2. QED BY <1>1, SwitchStart, PTL DEF SwitchSpec

(***************************************************************************)
(* However switches, approvals and tests of a capability overlap: its row  *)
(* is live, or has left live, only if a second operator approved such a    *)
(* request; until two switches overlap there is one row, and a live one    *)
(* uses a provider that was approved for it; and until tests overlap the   *)
(* health is the last test's. (providers.py set_config, test_connection;   *)
(* dual_control.py _execute.)                                              *)
(***************************************************************************)
THEOREM SwitchesDoGetApproved == SwitchSpec => []SwitchesAreApproved
<1>1. SwitchInv => SwitchesAreApproved
  <2>1. SUFFICES ASSUME SwitchInv PROVE SwitchesAreApproved
        OBVIOUS
  <2>2. ASSUME "switch" \notin rushed PROVE ~(Cardinality(ProviderRows) > 1)
    <3>1. \A s, t \in ProviderRows : s = t
          BY <2>1, <2>2 DEF SwitchInv, SwitchAloneInv
    <3>2. CASE ProviderRows = {}
          BY <3>2, FS_EmptySet
    <3>3. CASE ProviderRows # {}
      <4>1. PICK s \in ProviderRows : TRUE
            BY <3>3
      <4>2. ProviderRows = {s}
            BY <3>1, <4>1
      <4>3. Cardinality(ProviderRows) = 1
            BY <4>2, FS_Singleton
      <4>4. QED BY <4>3
    <3>4. QED BY <3>2, <3>3
  <2>3. \A s \in ProviderRows : ModeInv(s) /\ configs[s] # NoProvider
        BY <2>1 DEF SwitchInv, ProviderRows
  <2>4. QED BY <2>2, <2>3 DEF ModeInv, SwitchesAreApproved
<1>2. QED BY <1>1, SwitchAlways, PTL

\* What was granted and what has been live are what settings and rows can be.
SwitchGhosts ==
    /\ granted \subseteq [provider : ProviderIds, mode : Modes]
    /\ everLive \subseteq Switches /\ rushed \subseteq {"switch", "test"}

\* The capability's row, its switches and its tests keep their types.
LEMMA SwitchTypesHold == SwitchSpec => []SwitchTypeOK
<1>1. SwitchInit => SwitchGhosts
      BY DEF SwitchInit, SwitchGhosts
<1>2. SwitchInv /\ SwitchGhosts /\ [SwitchNext]_switchVars => SwitchGhosts'
  <2>1. SUFFICES ASSUME SwitchTypes, SwitchingInv, SwitchGhosts, [SwitchNext]_switchVars
                 PROVE  SwitchGhosts'
        BY DEF SwitchInv
  <2>2. CASE UNCHANGED <<granted, everLive, rushed>>
        BY <2>1, <2>2 DEF SwitchGhosts
  <2>3. ASSUME NEW c \in Switches, CommitSwitch(c) PROVE SwitchGhosts'
    <3>1. switch[c].want \in ProviderSettings /\ switch[c].row \in Switches \cup {NoSwitch}
          BY <2>1, <2>3 DEF CommitSwitch, SwitchingInv, Wants, SwitchTypes, SwitchRows
    <3>2. [provider |-> switch[c].want.provider, mode |-> switch[c].want.mode]
             \in [provider : ProviderIds, mode : Modes]
          BY <3>1 DEF ProviderSettings
    <3>3. granted' \subseteq [provider : ProviderIds, mode : Modes]
          BY <2>1, <2>3, <3>2 DEF CommitSwitch, SwitchGhosts
    <3>4. everLive' \subseteq Switches
          BY <2>1, <2>3, <3>1 DEF CommitSwitch, SwitchGhosts
    <3>5. rushed' \subseteq {"switch", "test"}
          BY <2>1, <2>3 DEF CommitSwitch, SwitchGhosts
    <3>6. QED BY <3>3, <3>4, <3>5 DEF SwitchGhosts
  <2>4. ASSUME NEW t \in HealthTests, NEW health \in Health, CommitTest(t, health)
        PROVE  SwitchGhosts'
        BY <2>1, <2>4 DEF CommitTest, SwitchGhosts
  <2>5. ASSUME NEW c \in Switches,
               \/ \E provider \in ProviderIds, mode \in Modes : SetProvider(c, provider, mode)
               \/ \E r \in Switches : ExecuteSwitch(c, r)
        PROVE  SwitchGhosts'
        BY <2>2, <2>5 DEF SetProvider, ExecuteSwitch
  <2>6. ASSUME NEW t \in HealthTests, NEW s \in Switches, BeginTest(t, s) PROVE SwitchGhosts'
        BY <2>2, <2>6 DEF BeginTest
  <2>7. QED BY <2>1, <2>2, <2>3, <2>4, <2>5, <2>6 DEF SwitchNext, switchVars
<1>3. SwitchInv /\ SwitchGhosts => SwitchTypeOK
      BY DEF SwitchInv, SwitchTypes, TestRows, SwitchGhosts, SwitchTypeOK
<1>4. QED BY <1>1, <1>2, <1>3, SwitchAlways, PTL DEF SwitchSpec

-----------------------------------------------------------------------------
(* Secrets and failover policies: ProviderUpkeep.                          *)

PolicyRows == [failures : Nat, tripped : BOOLEAN, threshold : Thresholds]
UpkeepRows == [pc : {"new", "write", "done"}, retires : SUBSET Rotations, version : Nat,
               missed : BOOLEAN, read : [failures : Nat, tripped : BOOLEAN, threshold : Nat]]
UpkeepTypes ==
    /\ secrets \in [Rotations -> [version : Nat, active : BOOLEAN]]
    /\ policy \in PolicyRows
    /\ upkeep \in [UpkeepCalls -> UpkeepRows]
    /\ reports \in Nat

\* A rotation makes one secret, active and above those that it retires; and no
\* secret is above all active ones.
SecretsInv ==
    /\ \A r \in Rotations : upkeep[r].pc # "done" => secrets[r].version = 0
    /\ \A r \in Rotations : secrets[r].active => secrets[r].version > 0
    /\ \A r \in Rotations : secrets[r].version > 0 =>
          \E t \in Active : secrets[r].version <= secrets[t].version
    /\ \A r \in Rotations : upkeep[r].pc = "write" =>
          /\ upkeep[r].version > 0
          /\ \A t \in upkeep[r].retires :
                secrets[t].version > 0 /\ secrets[t].version < upkeep[r].version

\* A rotation that has missed nothing retires what is active, and comes highest.
FreshSecretsInv ==
    \A r \in Rotations : upkeep[r].pc = "write" /\ ~upkeep[r].missed =>
       /\ Active \subseteq upkeep[r].retires
       /\ \A s \in Rotations : secrets[s].version < upkeep[r].version
LastSecretInv ==
    "secrets" \notin ruffled =>
       \/ \A r \in Rotations : secrets[r].version = 0
       \/ \E r \in Rotations : /\ Active = {r}
             /\ \A s \in Rotations \ {r} : secrets[s].version < secrets[r].version

\* Who has missed nothing on the policy has read what is there.
PolicyInv ==
    /\ \A c \in PolicyCalls : upkeep[c].pc = "write" =>
          /\ upkeep[c].read \in PolicyRows
          /\ ~upkeep[c].missed => upkeep[c].read = policy
    /\ "policy" \notin ruffled =>
          /\ policy.failures = reports
          /\ policy.tripped => \E threshold \in Thresholds : reports >= threshold

UpkeepInv == UpkeepTypes /\ SecretsInv /\ FreshSecretsInv /\ LastSecretInv /\ PolicyInv

\* Versions have a highest.
LEMMA MaxIsHighest ==
    ASSUME NEW S, IsFiniteSet(S), S \subseteq Nat, S # {}
    PROVE  Max(S) \in S /\ \A x \in S : x <= Max(S)
<1> DEFINE Good == {T \in SUBSET S : T # {} => \E x \in T : \A y \in T : x >= y}
<1>1. ASSUME NEW T \in SUBSET S, \A U \in SUBSET T : U # T => U \in Good
      PROVE  T \in Good
  <2>1. CASE T = {}
        BY <2>1
  <2>2. CASE T # {}
    <3>1. PICK e \in T : TRUE
          BY <2>2
    <3>2. T \ {e} \in Good
          BY <1>1, <3>1
    <3>3. CASE T \ {e} = {}
          BY <3>1, <3>3
    <3>4. CASE T \ {e} # {}
      <4>1. PICK x \in T \ {e} : \A y \in T \ {e} : x >= y
            BY <3>2, <3>4
      <4>2. e \in Nat /\ x \in Nat /\ T \subseteq Nat
            BY <3>1, <4>1
      <4>3. CASE x >= e
            BY <4>1, <4>3
      <4>4. CASE ~(x >= e)
        <5>1. \A y \in T : e >= y
              BY <4>1, <4>2, <4>4
        <5>2. QED BY <3>1, <5>1
      <4>5. QED BY <4>3, <4>4
    <3>5. QED BY <3>3, <3>4
  <2>3. QED BY <2>1, <2>2
<1>2. Good \in SUBSET (SUBSET S)
      OBVIOUS
<1>3. Good = SUBSET S
  <2> HIDE DEF Good
  <2>1. QED BY <1>1, <1>2, SubsetInduction
<1>4. \E x \in S : \A y \in S : x >= y
      BY <1>3
<1>5. Max(S) \in S /\ \A y \in S : Max(S) >= y
      BY <1>4 DEF Max
<1>6. QED BY <1>5

\* The next version is above every secret there is.
LEMMA NextIsHigher ==
    ASSUME UpkeepTypes, SecretsInv
    PROVE  /\ NextVersion \in Nat /\ NextVersion > 0
           /\ \A r \in Rotations : secrets[r].version < NextVersion
<1> DEFINE versions == {secrets[r].version : r \in Active} \cup {0}
<1>1. Active \subseteq Rotations /\ IsFiniteSet(Active)
      BY UpkeepAssumption, FS_Subset DEF Active
<1>2. IsFiniteSet({secrets[r].version : r \in Active})
  <2> DEFINE T == {secrets[r].version : r \in Active}
             f == [r \in Active |-> secrets[r].version]
  <2>1. f \in Surjection(Active, T)
        BY DEF Surjection
  <2>2. QED BY <1>1, <2>1, FS_Surjection
<1>3. IsFiniteSet(versions) /\ versions # {} /\ versions \subseteq Nat
  <2>1. IsFiniteSet(versions)
        BY <1>2, FS_AddElement
  <2>2. QED BY <1>1, <2>1 DEF UpkeepTypes
<1>4. NextVersion = Max(versions) + 1
      BY DEF NextVersion
<1> HIDE DEF versions
<1>5. Max(versions) \in versions /\ \A x \in versions : x <= Max(versions)
      BY <1>3, MaxIsHighest
<1>6. 0 \in versions /\ \A r \in Active : secrets[r].version \in versions
      BY DEF versions
<1>7. ASSUME NEW r \in Rotations PROVE secrets[r].version <= Max(versions)
  <2>1. secrets[r].version \in Nat
        BY DEF UpkeepTypes
  <2>2. CASE secrets[r].version = 0
        BY <1>5, <1>6, <2>2
  <2>3. CASE secrets[r].version > 0
    <3>1. PICK t \in Active : secrets[r].version <= secrets[t].version
          BY <2>3 DEF SecretsInv
    <3>2. secrets[t].version \in Nat /\ secrets[t].version <= Max(versions) /\ Max(versions) \in Nat
          BY <1>1, <1>3, <1>5, <1>6 DEF UpkeepTypes
    <3>3. QED BY <2>1, <3>1, <3>2
  <2>4. QED BY <2>1, <2>2, <2>3
<1>8. Max(versions) \in Nat /\ \A r \in Rotations : secrets[r].version \in Nat
      BY <1>3, <1>5 DEF UpkeepTypes
<1>9. QED BY <1>4, <1>7, <1>8

LEMMA UpkeepStart == UpkeepInit => UpkeepInv
<1> SUFFICES ASSUME UpkeepInit PROVE UpkeepInv
    OBVIOUS
<1>1. PICK cast \in UpkeepCasts : upkeep = [c \in UpkeepCalls |->
          [NotYet EXCEPT !.pc = IF c \in cast THEN "new" ELSE "done"]]
      BY DEF UpkeepInit
<1>2. /\ upkeep \in [UpkeepCalls -> UpkeepRows]
      /\ \A c \in UpkeepCalls : upkeep[c].pc # "write"
      BY <1>1 DEF NotYet, UpkeepRows
<1>3. /\ secrets \in [Rotations -> [version : Nat, active : BOOLEAN]]
      /\ \A r \in Rotations : secrets[r].version = 0 /\ ~secrets[r].active
      BY DEF UpkeepInit, NoSecret
<1>4. policy \in PolicyRows /\ policy.failures = 0 /\ ~policy.tripped /\ reports = 0
  <2>1. policy \in [failures : {0}, tripped : {FALSE}, threshold : Thresholds] /\ reports = 0
        BY DEF UpkeepInit
  <2>2. policy.failures = 0 /\ policy.tripped = FALSE /\ policy.threshold \in Thresholds
        BY <2>1
  <2>3. PICK threshold \in Thresholds :
              policy = [failures |-> 0, tripped |-> FALSE, threshold |-> threshold]
        BY <2>1, <2>2
  <2>4. policy \in PolicyRows
        BY <2>3 DEF PolicyRows
  <2>5. QED BY <2>1, <2>2, <2>4
<1>5. UpkeepTypes
      BY <1>2, <1>3, <1>4 DEF UpkeepTypes
<1>6. SecretsInv /\ FreshSecretsInv /\ LastSecretInv
      BY <1>2, <1>3 DEF SecretsInv, FreshSecretsInv, LastSecretInv, UpkeepCalls
<1>7. PolicyInv
      BY <1>2, <1>4 DEF PolicyInv, UpkeepCalls
<1>8. QED BY <1>5, <1>6, <1>7 DEF UpkeepInv

LEMMA ReadSecretsInv ==
    ASSUME UpkeepInv, NEW r \in Rotations, ReadSecrets(r)
    PROVE  UpkeepInv'
<1> DEFINE new == [NotYet EXCEPT !.pc = "write", !.retires = Retires, !.version = NextVersion]
<1>1. /\ r \in UpkeepCalls /\ upkeep[r].pc = "new" /\ upkeep' = [upkeep EXCEPT ![r] = new]
      /\ UNCHANGED <<secrets, policy, reports, ruffled>>
      BY DEF ReadSecrets, UpkeepCalls
<1>2. /\ NextVersion \in Nat /\ NextVersion > 0
      /\ \A s \in Rotations : secrets[s].version < NextVersion
      BY NextIsHigher DEF UpkeepInv
<1>3. /\ new \in UpkeepRows /\ new.pc = "write" /\ new.retires = Active
      /\ new.version = NextVersion
      BY <1>2 DEF UpkeepRows, NotYet, Retires, Active
<1> HIDE DEF new
<1>4. /\ upkeep' \in [UpkeepCalls -> UpkeepRows] /\ upkeep'[r] = new
      /\ \A c \in UpkeepCalls : c # r => upkeep'[c] = upkeep[c]
      BY <1>1, <1>3 DEF UpkeepInv, UpkeepTypes
<1>5. Active' = Active /\ Active \subseteq Rotations
      BY <1>1 DEF Active
<1>6. UpkeepTypes'
      BY <1>1, <1>4 DEF UpkeepInv, UpkeepTypes
<1>7. \A t \in Active : secrets[t].version > 0
      BY DEF Active, UpkeepInv, SecretsInv
<1>8. SecretsInv'
  <2>1. ASSUME NEW s \in Rotations
        PROVE  /\ upkeep'[s].pc # "done" => secrets[s].version = 0
               /\ upkeep'[s].pc = "write" =>
                     /\ upkeep'[s].version > 0
                     /\ \A t \in upkeep'[s].retires :
                           secrets[t].version > 0 /\ secrets[t].version < upkeep'[s].version
    <3>1. CASE s = r
          BY <1>1, <1>2, <1>3, <1>4, <1>5, <1>7, <3>1 DEF UpkeepInv, SecretsInv
    <3>2. CASE s # r
          BY <1>4, <3>2 DEF UpkeepInv, SecretsInv, UpkeepCalls
    <3>3. QED BY <3>1, <3>2
  <2>2. QED BY <1>1, <1>5, <2>1 DEF UpkeepInv, SecretsInv
<1>9. FreshSecretsInv'
  <2>1. ASSUME NEW s \in Rotations, upkeep'[s].pc = "write", ~upkeep'[s].missed
        PROVE  /\ Active \subseteq upkeep'[s].retires
               /\ \A t \in Rotations : secrets[t].version < upkeep'[s].version
    <3>1. CASE s = r
          BY <1>2, <1>3, <1>4, <3>1
    <3>2. CASE s # r
          BY <1>4, <2>1, <3>2 DEF UpkeepInv, FreshSecretsInv, UpkeepCalls
    <3>3. QED BY <3>1, <3>2
  <2>2. QED BY <1>1, <1>5, <2>1 DEF FreshSecretsInv
<1>10. LastSecretInv'
      BY <1>1, <1>5 DEF UpkeepInv, LastSecretInv
<1>11. PolicyInv'
  <2>1. \A c \in PolicyCalls : c # r /\ c \in UpkeepCalls
        BY UpkeepAssumption DEF PolicyCalls, UpkeepCalls
  <2>2. QED BY <1>1, <1>4, <2>1 DEF UpkeepInv, PolicyInv
<1>12. QED BY <1>6, <1>8, <1>9, <1>10, <1>11 DEF UpkeepInv

\* What a commit leaves of the calls.
LEMMA CommitsCalls ==
    ASSUME UpkeepTypes, NEW c \in UpkeepCalls, NEW peers, Commits(c, peers)
    PROVE  /\ upkeep' \in [UpkeepCalls -> UpkeepRows] /\ upkeep'[c].pc = "done"
           /\ \A d \in UpkeepCalls : d # c =>
                 /\ upkeep'[d].pc = upkeep[d].pc /\ upkeep'[d].retires = upkeep[d].retires
                 /\ upkeep'[d].version = upkeep[d].version /\ upkeep'[d].read = upkeep[d].read
                 /\ d \notin peers => upkeep'[d] = upkeep[d]
                 /\ d \in peers /\ upkeep[d].pc = "write" => upkeep'[d].missed
<1>1. upkeep'[c] = [NotYet EXCEPT !.pc = "done"]
      BY DEF Commits
<1>2. upkeep'[c] \in UpkeepRows /\ upkeep'[c].pc = "done"
  <2>1. upkeep'[c] = [pc |-> "done", retires |-> {}, version |-> 0, missed |-> FALSE,
                      read |-> [failures |-> 0, tripped |-> FALSE, threshold |-> 0]]
        BY <1>1 DEF NotYet
  <2>2. QED BY <2>1 DEF UpkeepRows
<1>3. ASSUME NEW d \in UpkeepCalls, d # c
      PROVE  /\ upkeep'[d] \in UpkeepRows
             /\ upkeep'[d].pc = upkeep[d].pc /\ upkeep'[d].retires = upkeep[d].retires
             /\ upkeep'[d].version = upkeep[d].version /\ upkeep'[d].read = upkeep[d].read
             /\ d \notin peers => upkeep'[d] = upkeep[d]
             /\ d \in peers /\ upkeep[d].pc = "write" => upkeep'[d].missed
  <2>1. upkeep[d] \in UpkeepRows
        BY DEF UpkeepTypes
  <2>2. CASE d \in peers /\ upkeep[d].pc = "write"
    <3>1. upkeep'[d] = [upkeep[d] EXCEPT !.missed = TRUE]
          BY <1>3, <2>2 DEF Commits
    <3>2. QED BY <2>1, <2>2, <3>1 DEF UpkeepRows
  <2>3. CASE ~(d \in peers /\ upkeep[d].pc = "write")
    <3>1. upkeep'[d] = upkeep[d]
          BY <1>3, <2>3 DEF Commits
    <3>2. QED BY <2>1, <2>3, <3>1
  <2>4. QED BY <2>2, <2>3
<1>4. upkeep' \in [UpkeepCalls -> UpkeepRows]
      BY <1>2, <1>3 DEF Commits
<1>5. QED BY <1>2, <1>3, <1>4

LEMMA CommitSecretInv ==
    ASSUME UpkeepInv, NEW r \in Rotations, CommitSecret(r)
    PROVE  UpkeepInv'
<1>1. /\ r \in UpkeepCalls /\ upkeep[r].pc = "write" /\ Commits(r, Rotations)
      /\ policy' = policy /\ reports' = reports
      /\ ruffled' = IF upkeep[r].missed THEN ruffled \cup {"secrets"} ELSE ruffled \ {"secrets"}
      BY DEF CommitSecret, UpkeepCalls
<1>2. upkeep[r].version \in Nat /\ upkeep[r].retires \subseteq Rotations
      BY <1>1 DEF UpkeepInv, UpkeepTypes, UpkeepRows
<1>3. /\ upkeep' \in [UpkeepCalls -> UpkeepRows] /\ upkeep'[r].pc = "done"
      /\ \A d \in UpkeepCalls : d # r =>
            /\ upkeep'[d].pc = upkeep[d].pc /\ upkeep'[d].retires = upkeep[d].retires
            /\ upkeep'[d].version = upkeep[d].version /\ upkeep'[d].read = upkeep[d].read
            /\ d \notin Rotations => upkeep'[d] = upkeep[d]
            /\ d \in Rotations /\ upkeep[d].pc = "write" => upkeep'[d].missed
      BY <1>1, CommitsCalls DEF UpkeepInv
<1>4. /\ secrets' \in [Rotations -> [version : Nat, active : BOOLEAN]]
      /\ secrets'[r].version = upkeep[r].version /\ secrets'[r].active
      /\ \A s \in Rotations : s # r =>
            /\ secrets'[s].version = secrets[s].version
            /\ secrets'[s].active <=> secrets[s].active /\ s \notin upkeep[r].retires
  <2>1. secrets'[r] = [version |-> upkeep[r].version, active |-> TRUE] /\ DOMAIN secrets' = Rotations
        BY DEF CommitSecret
  <2>2. ASSUME NEW s \in Rotations, s # r
        PROVE  /\ secrets'[s] \in [version : Nat, active : BOOLEAN]
               /\ secrets'[s].version = secrets[s].version
               /\ secrets'[s].active <=> secrets[s].active /\ s \notin upkeep[r].retires
    <3>1. PICK kept \in BOOLEAN : kept <=> secrets[s].active /\ s \notin upkeep[r].retires
          OBVIOUS
    <3>2. secrets'[s] = [secrets[s] EXCEPT !.active = kept]
          BY <2>2, <3>1 DEF CommitSecret, UpkeepInv, UpkeepTypes
    <3>3. QED BY <3>1, <3>2 DEF UpkeepInv, UpkeepTypes
  <2>3. secrets'[r] \in [version : Nat, active : BOOLEAN]
        BY <1>2, <2>1
  <2>4. secrets' = [s \in Rotations |-> secrets'[s]]
        BY DEF CommitSecret
  <2>5. secrets' \in [Rotations -> [version : Nat, active : BOOLEAN]]
        BY <2>2, <2>3, <2>4
  <2>6. QED BY <2>1, <2>2, <2>5
<1>5. /\ secrets[r].version = 0 /\ ~secrets[r].active
      /\ upkeep[r].version > 0
      /\ \A t \in upkeep[r].retires :
            secrets[t].version > 0 /\ secrets[t].version < upkeep[r].version
      BY <1>1 DEF UpkeepInv, SecretsInv
<1>6. r \in Active' /\ \A s \in Rotations : s # r =>
         (s \in Active' <=> s \in Active /\ s \notin upkeep[r].retires)
      BY <1>4 DEF Active
<1>7. \A s \in Rotations : secrets[s].version \in Nat
      BY DEF UpkeepInv, UpkeepTypes
<1>8. UpkeepTypes'
      BY <1>1, <1>3, <1>4 DEF UpkeepInv, UpkeepTypes
<1>9. SecretsInv'
  <2>1. ASSUME NEW s \in Rotations
        PROVE  /\ upkeep'[s].pc # "done" => secrets'[s].version = 0
               /\ secrets'[s].active => secrets'[s].version > 0
        BY <1>3, <1>4, <1>5 DEF UpkeepInv, SecretsInv, UpkeepCalls
  <2>2. ASSUME NEW s \in Rotations, secrets'[s].version > 0
        PROVE  \E t \in Active' : secrets'[s].version <= secrets'[t].version
    <3>1. CASE s = r
          BY <1>2, <1>4, <1>6, <3>1
    <3>2. CASE s # r
      <4>1. PICK t \in Active : secrets[s].version <= secrets[t].version
            BY <1>4, <2>2, <3>2 DEF UpkeepInv, SecretsInv
      <4>2. t \in Rotations /\ t # r /\ secrets[t].version \in Nat
            BY <1>5, <1>7 DEF Active
      <4>3. CASE t \in upkeep[r].retires
            BY <1>2, <1>4, <1>5, <1>6, <1>7, <3>2, <4>1, <4>2, <4>3
      <4>4. CASE t \notin upkeep[r].retires
            BY <1>4, <1>6, <3>2, <4>1, <4>2, <4>4
      <4>5. QED BY <4>3, <4>4
    <3>3. QED BY <3>1, <3>2
  <2>3. ASSUME NEW s \in Rotations, upkeep'[s].pc = "write"
        PROVE  /\ upkeep'[s].version > 0
               /\ \A t \in upkeep'[s].retires :
                     secrets'[t].version > 0 /\ secrets'[t].version < upkeep'[s].version
    <3>1. s # r /\ s \in UpkeepCalls /\ upkeep[s].pc = "write" /\ upkeep[s].retires \subseteq Rotations
          BY <1>3, <2>3 DEF UpkeepCalls, UpkeepInv, UpkeepTypes, UpkeepRows
    <3>2. /\ upkeep[s].version > 0
          /\ \A t \in upkeep[s].retires :
                secrets[t].version > 0 /\ secrets[t].version < upkeep[s].version
          BY <3>1 DEF UpkeepInv, SecretsInv
    <3>3. \A t \in upkeep[s].retires : t \in Rotations /\ t # r
          BY <1>5, <3>1, <3>2
    <3>4. QED BY <1>3, <1>4, <3>1, <3>2, <3>3
  <2>4. QED BY <2>1, <2>2, <2>3 DEF SecretsInv
<1>10. FreshSecretsInv'
  <2>1. \A s \in Rotations : upkeep'[s].pc = "write" => upkeep'[s].missed
        BY <1>3 DEF UpkeepCalls
  <2>2. QED BY <2>1 DEF FreshSecretsInv
<1>11. LastSecretInv'
  <2>1. SUFFICES ASSUME ~upkeep[r].missed
                 PROVE  /\ Active' = {r}
                        /\ \A s \in Rotations \ {r} : secrets'[s].version < secrets'[r].version
        BY <1>1 DEF LastSecretInv
  <2>2. /\ Active \subseteq upkeep[r].retires
        /\ \A s \in Rotations : secrets[s].version < upkeep[r].version
        BY <1>1, <2>1 DEF UpkeepInv, FreshSecretsInv
  <2>3. Active' \subseteq Rotations
        BY DEF Active
  <2>4. QED BY <1>4, <1>6, <2>2, <2>3
<1>12. PolicyInv'
  <2>1. \A c \in PolicyCalls : c # r /\ c \in UpkeepCalls /\ c \notin Rotations
        BY UpkeepAssumption DEF PolicyCalls, UpkeepCalls
  <2>2. "policy" \notin ruffled' => "policy" \notin ruffled
        BY <1>1
  <2>3. QED BY <1>1, <1>3, <2>1, <2>2 DEF UpkeepInv, PolicyInv
<1>13. QED BY <1>8, <1>9, <1>10, <1>11, <1>12 DEF UpkeepInv

\* A call on the policy leaves secrets and rotations alone.
LEMMA PolicyKeepsSecrets ==
    ASSUME UpkeepInv, secrets' = secrets, "secrets" \in ruffled => "secrets" \in ruffled',
           upkeep' \in [UpkeepCalls -> UpkeepRows],
           \A r \in Rotations : upkeep'[r] = upkeep[r]
    PROVE  SecretsInv' /\ FreshSecretsInv' /\ LastSecretInv'
<1>1. Active' = Active
      BY DEF Active
<1>2. QED BY <1>1 DEF UpkeepInv, SecretsInv, FreshSecretsInv, LastSecretInv

LEMMA ReadPolicyInv ==
    ASSUME UpkeepInv, NEW c \in PolicyCalls, ReadPolicy(c)
    PROVE  UpkeepInv'
<1> DEFINE new == [NotYet EXCEPT !.pc = "write", !.read = policy]
<1>1. /\ c \in UpkeepCalls /\ c \notin Rotations /\ upkeep' = [upkeep EXCEPT ![c] = new]
      /\ UNCHANGED <<secrets, policy, reports, ruffled>>
      BY UpkeepAssumption DEF ReadPolicy, UpkeepCalls, PolicyCalls
<1>2. new \in UpkeepRows /\ new.pc = "write" /\ new.read = policy /\ policy \in PolicyRows
      BY UpkeepAssumption DEF UpkeepRows, NotYet, UpkeepInv, UpkeepTypes, PolicyRows
<1> HIDE DEF new
<1>3. /\ upkeep' \in [UpkeepCalls -> UpkeepRows] /\ upkeep'[c] = new
      /\ \A d \in UpkeepCalls : d # c => upkeep'[d] = upkeep[d]
      BY <1>1, <1>2 DEF UpkeepInv, UpkeepTypes
<1>4. UpkeepTypes'
      BY <1>1, <1>3 DEF UpkeepInv, UpkeepTypes
<1>5. \A r \in Rotations : upkeep'[r] = upkeep[r]
      BY <1>1, <1>3 DEF UpkeepCalls
<1>6. SecretsInv' /\ FreshSecretsInv' /\ LastSecretInv'
      BY <1>1, <1>3, <1>5, PolicyKeepsSecrets
<1>7. PolicyInv'
      BY <1>1, <1>2, <1>3 DEF UpkeepInv, PolicyInv, UpkeepCalls
<1>8. QED BY <1>4, <1>6, <1>7 DEF UpkeepInv

LEMMA CommitPolicyInv ==
    ASSUME UpkeepInv, NEW c \in PolicyCalls,
           Report(c) \/ Reset(c) \/ \E threshold \in Thresholds : EditPolicy(c, threshold)
    PROVE  UpkeepInv'
<1>1. /\ c \in UpkeepCalls /\ c \notin Rotations /\ upkeep[c].pc = "write"
      /\ Commits(c, PolicyCalls) /\ secrets' = secrets
      /\ ruffled' = IF upkeep[c].missed THEN ruffled \cup {"policy"} ELSE ruffled
      BY UpkeepAssumption DEF Report, Reset, EditPolicy, CommitPolicy, UpkeepCalls, PolicyCalls
<1>2. /\ upkeep' \in [UpkeepCalls -> UpkeepRows] /\ upkeep'[c].pc = "done"
      /\ \A d \in UpkeepCalls : d # c =>
            /\ upkeep'[d].pc = upkeep[d].pc /\ upkeep'[d].read = upkeep[d].read
            /\ d \notin PolicyCalls => upkeep'[d] = upkeep[d]
            /\ d \in PolicyCalls /\ upkeep[d].pc = "write" => upkeep'[d].missed
      BY <1>1, CommitsCalls DEF UpkeepInv
<1>3. /\ upkeep[c].read \in PolicyRows /\ policy \in PolicyRows /\ reports \in Nat
      /\ ~upkeep[c].missed => upkeep[c].read = policy
      BY <1>1 DEF UpkeepInv, UpkeepTypes, PolicyInv
<1>4. PICK read \in PolicyRows : read = upkeep[c].read
      BY <1>3
<1>5. /\ policy' \in PolicyRows /\ reports' \in Nat
      /\ ~upkeep[c].missed /\ policy.failures = reports
            /\ (policy.tripped => \E threshold \in Thresholds : reports >= threshold) =>
         /\ policy'.failures = reports'
         /\ policy'.tripped => \E threshold \in Thresholds : reports' >= threshold
  <2>1. CASE Report(c)
    <3>1. PICK trips \in BOOLEAN : trips <=> policy.tripped
             \/ (read.failures + 1 >= read.threshold /\ ~read.tripped)
          OBVIOUS
    <3>2. /\ reports' = reports + 1
          /\ policy' = [policy EXCEPT !.failures = read.failures + 1, !.tripped = trips]
      <4>1. LET more == [read EXCEPT !.failures = @ + 1] IN
               /\ more.failures = read.failures + 1 /\ more.threshold = read.threshold
               /\ more.tripped = read.tripped
            BY DEF PolicyRows
      <4>2. QED BY <1>3, <1>4, <2>1, <3>1, <4>1 DEF Report, Tripped, PolicyRows
    <3>3. /\ policy' \in PolicyRows /\ reports' \in Nat
          /\ policy'.failures = read.failures + 1 /\ (policy'.tripped <=> trips)
      <4>1. reports' \in Nat /\ read.failures + 1 \in Nat
            BY <1>3, <3>2 DEF PolicyRows
      <4>2. policy' = [failures |-> read.failures + 1, tripped |-> trips,
                       threshold |-> policy.threshold]
            BY <1>3, <3>2 DEF PolicyRows
      <4>3. policy.threshold \in Thresholds
            BY <1>3 DEF PolicyRows
      <4>4. QED BY <4>1, <4>2, <4>3 DEF PolicyRows
    <3>4. ASSUME ~upkeep[c].missed, policy.failures = reports, policy'.tripped,
                 policy.tripped => \E threshold \in Thresholds : reports >= threshold
          PROVE  \E threshold \in Thresholds : reports' >= threshold
      <4>1. CASE policy.tripped
        <5>1. PICK threshold \in Thresholds : reports >= threshold
              BY <3>4, <4>1
        <5>2. threshold \in Nat
              BY UpkeepAssumption
        <5>3. reports' >= threshold
              BY <1>3, <3>2, <5>1, <5>2
        <5>4. QED BY <5>3
      <4>2. CASE ~policy.tripped
        <5>1. reports + 1 >= read.threshold /\ read.threshold \in Thresholds
              BY <1>3, <1>4, <3>1, <3>3, <3>4, <4>2 DEF PolicyRows
        <5>2. QED BY <3>2, <5>1
      <4>3. QED BY <4>1, <4>2
    <3>5. QED BY <1>3, <1>4, <3>2, <3>3, <3>4
  <2>2. CASE Reset(c)
    <3>1. PICK trips \in BOOLEAN : trips <=> policy.tripped /\ ~read.tripped
          OBVIOUS
    <3>2. /\ reports' = 0
          /\ policy' = [policy EXCEPT !.failures = IF read.failures = 0 THEN @ ELSE 0,
                                      !.tripped = trips]
          BY <1>3, <1>4, <2>2, <3>1 DEF Reset, Cleared, PolicyRows
    <3>3. QED BY <1>3, <1>4, <3>1, <3>2 DEF PolicyRows
  <2>3. CASE \E threshold \in Thresholds : EditPolicy(c, threshold)
        BY <1>3, <2>3 DEF EditPolicy, PolicyRows
  <2>4. QED BY <2>1, <2>2, <2>3
<1>6. UpkeepTypes'
      BY <1>1, <1>2, <1>5 DEF UpkeepInv, UpkeepTypes
<1>7. \A r \in Rotations : upkeep'[r] = upkeep[r]
      BY <1>1, <1>2, UpkeepAssumption DEF UpkeepCalls, PolicyCalls
<1>8. SecretsInv' /\ FreshSecretsInv' /\ LastSecretInv'
      BY <1>1, <1>2, <1>7, PolicyKeepsSecrets
<1>9. PolicyInv'
  <2>1. ASSUME NEW d \in PolicyCalls, upkeep'[d].pc = "write"
        PROVE  upkeep'[d].read \in PolicyRows /\ upkeep'[d].missed
    <3>1. d # c /\ d \in UpkeepCalls /\ upkeep[d].pc = "write"
          BY <1>2, <2>1 DEF UpkeepCalls
    <3>2. QED BY <1>2, <3>1 DEF UpkeepInv, PolicyInv
  <2>2. "policy" \notin ruffled' => ~upkeep[c].missed /\ "policy" \notin ruffled
        BY <1>1
  <2>3. QED BY <1>5, <2>1, <2>2 DEF UpkeepInv, PolicyInv
<1>10. QED BY <1>6, <1>8, <1>9 DEF UpkeepInv

\* What is proved of every state of secrets and failover.
LEMMA UpkeepAlways == UpkeepSpec => []UpkeepInv
<1>1. UpkeepInv /\ [UpkeepNext]_upkeepVars => UpkeepInv'
  <2>1. SUFFICES ASSUME UpkeepInv, [UpkeepNext]_upkeepVars PROVE UpkeepInv'
        OBVIOUS
  <2>2. CASE UNCHANGED upkeepVars
        BY <2>1, <2>2 DEF upkeepVars, UpkeepInv, UpkeepTypes, SecretsInv, FreshSecretsInv,
           LastSecretInv, PolicyInv, Active
  <2>3. CASE \E r \in Rotations : ReadSecrets(r) \/ CommitSecret(r)
        BY <2>1, <2>3, ReadSecretsInv, CommitSecretInv
  <2>4. CASE \E c \in PolicyCalls : ReadPolicy(c)
        BY <2>1, <2>4, ReadPolicyInv
  <2>5. CASE \E c \in PolicyCalls :
                Report(c) \/ Reset(c) \/ \E threshold \in Thresholds : EditPolicy(c, threshold)
        BY <2>1, <2>5, CommitPolicyInv
  <2>6. QED BY <2>1, <2>2, <2>3, <2>4, <2>5 DEF UpkeepNext, PolicyCalls
<1>2. QED BY <1>1, UpkeepStart, PTL DEF UpkeepSpec

(***************************************************************************)
(* However rotations and calls on the policy overlap: a secret that was    *)
(* stored has an active version, one only and the highest once a rotation  *)
(* missed nothing; the policy has counted every report until a call on it  *)
(* missed another. (providers.py set_secret, trip_failover,                *)
(* reset_failover, set_failover.)                                          *)
(***************************************************************************)
THEOREM UpkeepIsSound == UpkeepSpec => []UpkeepSound
<1>1. UpkeepInv => UpkeepSound
  <2>1. SUFFICES ASSUME UpkeepInv PROVE UpkeepSound
        OBVIOUS
  <2>2. ASSUME NEW r \in Rotations, secrets[r].version > 0
        PROVE  /\ Active # {}
               /\ "secrets" \notin ruffled => \E s \in Rotations : Active = {s}
                     /\ \A t \in Rotations \ {s} : secrets[t].version < secrets[s].version
    <3>1. Active # {}
          BY <2>1, <2>2 DEF UpkeepInv, SecretsInv
    <3>2. ~ \A s \in Rotations : secrets[s].version = 0
          BY <2>2
    <3>3. QED BY <2>1, <3>1, <3>2 DEF UpkeepInv, LastSecretInv
  <2>3. QED BY <2>1, <2>2 DEF UpkeepInv, PolicyInv, UpkeepSound
<1>2. QED BY <1>1, UpkeepAlways, PTL

\* Secrets, the policy and the calls on them keep their types.
LEMMA UpkeepTypesHold == UpkeepSpec => []UpkeepTypeOK
<1> DEFINE Ruffled == ruffled \subseteq {"secrets", "policy"}
<1>1. UpkeepInit => Ruffled
      BY DEF UpkeepInit
<1>2. Ruffled /\ [UpkeepNext]_upkeepVars => Ruffled'
  <2>1. SUFFICES ASSUME Ruffled, [UpkeepNext]_upkeepVars PROVE Ruffled'
        OBVIOUS
  <2>2. CASE UNCHANGED upkeepVars
        BY <2>1, <2>2 DEF upkeepVars
  <2>3. ASSUME NEW c, CommitPolicy(c) PROVE Ruffled'
        BY <2>1, <2>3 DEF CommitPolicy
  <2>4. ASSUME NEW r \in Rotations, ReadSecrets(r) \/ CommitSecret(r) PROVE Ruffled'
        BY <2>1, <2>4 DEF ReadSecrets, CommitSecret
  <2>5. ASSUME NEW c \in PolicyCalls, ReadPolicy(c) PROVE Ruffled'
        BY <2>1, <2>5 DEF ReadPolicy
  <2>6. QED BY <2>1, <2>2, <2>3, <2>4, <2>5 DEF UpkeepNext, Report, Reset, EditPolicy
<1>3. UpkeepInv /\ Ruffled => UpkeepTypeOK
      BY DEF UpkeepInv, UpkeepTypes, PolicyRows, UpkeepRows, UpkeepTypeOK
<1>4. QED BY <1>1, <1>2, <1>3, UpkeepAlways, PTL DEF UpkeepSpec

\* Providers, their secrets and their failover are as operators left them, however
\* calls overlap (providers.py, dual_control.py _execute).
THEOREM ProvidersAreSound == SwitchSpec /\ UpkeepSpec => []ProvidersSound
BY SwitchesDoGetApproved, UpkeepIsSound, PTL DEF ProvidersSound

-----------------------------------------------------------------------------
(* Report cards.                                                           *)

\* The tables are functions of their ids, a generation is a record with a pc,
\* and the result is one with a status; no more is needed, not even what a
\* preview adds up to.
TablesInv ==
    /\ DOMAIN sheet = Sheets /\ DOMAIN editing = Editors
    /\ DOMAIN generating = Generators
    /\ \A g \in Generators : "pc" \in DOMAIN generating[g]
    /\ result \in [status : {"none", "pending", "approved"}, records : {result.records}]

LEMMA TablesInit == MarksInit => TablesInv
<1> SUFFICES ASSUME MarksInit PROVE TablesInv
    OBVIOUS
<1>1. DOMAIN sheet = Sheets /\ DOMAIN editing = Editors /\ DOMAIN generating = Generators
      BY DEF MarksInit
<1>2. \A g \in Generators : generating[g] = IdleGeneration
      BY DEF MarksInit
<1>3. "pc" \in DOMAIN IdleGeneration
      BY DEF IdleGeneration
<1>4. result \in [status : {"none", "pending", "approved"}, records : {result.records}]
      BY DEF MarksInit
<1>5. QED BY <1>1, <1>2, <1>3, <1>4 DEF TablesInv

\* No statement of an edit touches a published sheet that no edit in flight is
\* about.
LEMMA EditsKeep ==
    ASSUME TablesInv, EditSheets
    PROVE  /\ TablesInv'
           /\ \A s \in Sheets : Frozen(s) => Frozen(s)' /\ sheet'[s] = sheet[s]
           /\ UNCHANGED <<result, generating>>
<1>1. UNCHANGED <<result, generating>>
      BY DEF EditSheets, CommitEdit, InsertSheet, BeginDelete, BeginPublish, BeginSave, BeginEdit
<1>2. NoEdit.of = {}
      BY DEF NoEdit
<1>3. ASSUME NEW e \in Editors, CommitEdit(e)
      PROVE  /\ DOMAIN sheet' = Sheets /\ DOMAIN editing' = Editors
             /\ \A s \in Sheets : Frozen(s) => Frozen(s)' /\ sheet'[s] = sheet[s]
  <2>1. /\ DOMAIN sheet' = Sheets /\ editing' = [editing EXCEPT ![e] = NoEdit]
        /\ \A s \in Sheets : s \notin editing[e].of => sheet'[s] = sheet[s]
        BY <1>3 DEF CommitEdit
  <2>2. QED BY <1>2, <2>1 DEF Frozen, TablesInv
<1>4. ASSUME NEW e \in Editors, NEW x \in Sheets, InsertSheet(e, x)
      PROVE  /\ DOMAIN sheet' = Sheets /\ DOMAIN editing' = Editors
             /\ \A s \in Sheets : Frozen(s) => Frozen(s)' /\ sheet'[s] = sheet[s]
  <2>1. /\ DOMAIN sheet' = Sheets /\ editing' = [editing EXCEPT ![e] = NoEdit]
        /\ \A s \in Sheets : s # x => sheet'[s] = sheet[s]
        BY <1>4 DEF InsertSheet, TablesInv
  <2>2. ~Frozen(x)
        BY <1>4 DEF InsertSheet, Frozen
  <2>3. QED BY <1>2, <2>1, <2>2 DEF Frozen, TablesInv
<1>5. ASSUME NEW e \in Editors, NEW edit, BeginEdit(e, edit),
             \A s \in Sheets : s \in edit.of => sheet[s].status # "published"
      PROVE  /\ DOMAIN sheet' = Sheets /\ DOMAIN editing' = Editors
             /\ \A s \in Sheets : Frozen(s) => Frozen(s)' /\ sheet'[s] = sheet[s]
  <2>1. /\ sheet' = sheet /\ editing' = [editing EXCEPT ![e] = edit]
        BY <1>5 DEF BeginEdit
  <2>2. QED BY <1>5, <2>1 DEF Frozen, TablesInv
<1>6. ASSUME NEW e \in Editors, NEW x \in Sheets, BeginDelete(e, x)
      PROVE  \E edit : BeginEdit(e, edit) /\ \A s \in Sheets : s \in edit.of => sheet[s].status # "published"
  <2>1. BeginEdit(e, [NoEdit EXCEPT !.op = "delete", !.of = {x}]) /\ sheet[x].status = "draft"
        BY <1>6 DEF BeginDelete
  <2>2. [NoEdit EXCEPT !.op = "delete", !.of = {x}].of = {x}
        BY DEF NoEdit
  <2>3. QED BY <2>1, <2>2
<1>7. ASSUME NEW e \in Editors, NEW S \in SUBSET Sheets, BeginPublish(e, S)
      PROVE  \E edit : BeginEdit(e, edit) /\ \A s \in Sheets : s \in edit.of => sheet[s].status # "published"
  <2>1. BeginEdit(e, [NoEdit EXCEPT !.op = "publish", !.of = S]) /\ \A s \in S : sheet[s].status = "draft"
        BY <1>7 DEF BeginPublish
  <2>2. [NoEdit EXCEPT !.op = "publish", !.of = S].of = S
        BY DEF NoEdit
  <2>3. QED BY <2>1, <2>2
<1>8. ASSUME NEW e \in Editors, NEW x \in Sheets \cup {NoSheet}, NEW sub \in Subjects,
             NEW score \in Scores, NEW status \in {"draft", "published"},
             BeginSave(e, x, sub, score, status)
      PROVE  \E edit : BeginEdit(e, edit) /\ \A s \in Sheets : s \in edit.of => sheet[s].status # "published"
  <2> DEFINE found == x # NoSheet /\ Live(x)
             of == IF found THEN {x} ELSE {}
             edit == [op |-> IF found THEN "update" ELSE "insert", of |-> of,
                      subject |-> sub, score |-> score, status |-> status]
  <2>1. BeginEdit(e, edit)
        BY <1>8 DEF BeginSave
  <2>2. found => sheet[x].status = "draft"
        BY <1>8 DEF BeginSave, Editable
  <2>3. edit.of = of
        OBVIOUS
  <2>4. \A s \in Sheets : s \in of => sheet[s].status # "published"
        BY <2>2
  <2> HIDE DEF edit
  <2>5. QED BY <2>1, <2>3, <2>4
<1>9. /\ DOMAIN sheet' = Sheets /\ DOMAIN editing' = Editors
      /\ \A s \in Sheets : Frozen(s) => Frozen(s)' /\ sheet'[s] = sheet[s]
      BY <1>3, <1>4, <1>5, <1>6, <1>7, <1>8 DEF EditSheets
<1>10. QED BY <1>1, <1>9 DEF TablesInv

\* A generation reads the release before it writes; nothing else writes the
\* result but a release.
LEMMA GenerationsKeep ==
    ASSUME TablesInv, GenerateResult
    PROVE  /\ TablesInv' /\ UNCHANGED <<sheet, editing>>
           /\ Final => Final' /\ result' = result
<1>1. UNCHANGED <<sheet, editing>>
      BY DEF GenerateResult, PreviewMarks, CheckRelease, WriteResult, PutLegacy, EndGeneration,
         AbandonGeneration, FindLegacy
<1>2. PICK g \in Generators :
         \/ \E taught \in SUBSET Subjects : PreviewMarks(g, taught)
         \/ CheckRelease(g) \/ WriteResult(g) \/ PutLegacy(g) \/ EndGeneration(g) \/ AbandonGeneration(g)
         \/ \E sub \in Subjects : FindLegacy(g, sub)
      BY DEF GenerateResult
<1> USE DEF TablesInv
<1>3. CASE WriteResult(g)
  <2>1. ~Final
        BY <1>3 DEF WriteResult, Final
  <2>2. /\ DOMAIN generating' = Generators
        /\ \A h \in Generators : "pc" \in DOMAIN generating'[h]
        BY <1>3 DEF WriteResult
  <2>3. result' = result \/ result' = [status |-> "pending", records |-> generating[g].records]
        BY <1>3 DEF WriteResult
  <2>4. QED BY <1>1, <2>1, <2>2, <2>3
<1>4. ASSUME NEW next, "pc" \in DOMAIN next, result' = result,
             generating' = [generating EXCEPT ![g] = next],
             Final => next.pc # "write"
      PROVE  /\ TablesInv'
             /\ Final => Final' /\ result' = result
  <2>1. /\ DOMAIN generating' = Generators /\ generating'[g] = next
        /\ \A h \in Generators : h # g => generating'[h] = generating[h]
        BY <1>4
  <2>2. QED BY <1>1, <1>4, <2>1 DEF Final
<1>5. CASE \E taught \in SUBSET Subjects : PreviewMarks(g, taught)
  <2>1. PICK taught \in SUBSET Subjects : PreviewMarks(g, taught)
        BY <1>5
  <2> DEFINE next == [generating[g] EXCEPT !.pc = "check", !.records = Preview(taught)]
  <2>2. generating' = [generating EXCEPT ![g] = next] /\ result' = result
        BY <2>1 DEF PreviewMarks
  <2>3. "pc" \in DOMAIN next /\ next.pc = "check"
        OBVIOUS
  <2> HIDE DEF next
  <2>4. QED BY <1>1, <1>4, <2>2, <2>3
<1>6. CASE CheckRelease(g)
  <2> DEFINE next == [generating[g] EXCEPT !.pc = IF MayGenerate THEN "write" ELSE "done",
                                           !.found = result.status # "none"]
  <2>1. generating' = [generating EXCEPT ![g] = next] /\ result' = result
        BY <1>6 DEF CheckRelease
  <2>2. "pc" \in DOMAIN next /\ (Final => next.pc = "done")
        BY DEF Final, MayGenerate
  <2> HIDE DEF next
  <2>3. QED BY <1>1, <1>4, <2>1, <2>2
<1>7. CASE PutLegacy(g)
  <2> DEFINE next == [generating[g] EXCEPT !.pc = "find", !.left = @ \ {generating[g].subject}]
  <2>1. generating' = [generating EXCEPT ![g] = next] /\ result' = result
        BY <1>7 DEF PutLegacy
  <2>2. "pc" \in DOMAIN next /\ next.pc = "find"
        OBVIOUS
  <2> HIDE DEF next
  <2>3. QED BY <1>1, <1>4, <2>1, <2>2
<1>8. CASE EndGeneration(g)
  <2> DEFINE next == [generating[g] EXCEPT !.pc = "done"]
  <2>1. generating' = [generating EXCEPT ![g] = next] /\ result' = result
        BY <1>8 DEF EndGeneration
  <2>2. "pc" \in DOMAIN next /\ next.pc = "done"
        OBVIOUS
  <2> HIDE DEF next
  <2>3. QED BY <1>1, <1>4, <2>1, <2>2
<1>9. CASE AbandonGeneration(g)
  <2> DEFINE next == [IdleGeneration EXCEPT !.pc = "done"]
  <2>1. generating' = [generating EXCEPT ![g] = next] /\ result' = result
        BY <1>9 DEF AbandonGeneration
  <2>2. "pc" \in DOMAIN next /\ next.pc = "done"
        BY DEF IdleGeneration
  <2> HIDE DEF next
  <2>3. QED BY <1>1, <1>4, <2>1, <2>2
<1>10. CASE \E sub \in Subjects : FindLegacy(g, sub)
  <2>0. PICK sub \in Subjects : FindLegacy(g, sub)
        BY <1>10
  <2>1. PICK found :
           generating' = [generating EXCEPT ![g].pc = "put", ![g].row = found, ![g].subject = sub]
           /\ result' = result
        BY <2>0 DEF FindLegacy
  <2> DEFINE next == [generating[g] EXCEPT !.pc = "put", !.row = found, !.subject = sub]
  <2>2. generating' = [generating EXCEPT ![g] = next] /\ result' = result
        BY <2>1
  <2>3. "pc" \in DOMAIN next /\ next.pc = "put"
        OBVIOUS
  <2> HIDE DEF next
  <2>4. QED BY <1>1, <1>4, <2>2, <2>3
<1>11. QED BY <1>1, <1>2, <1>3, <1>5, <1>6, <1>7, <1>8, <1>9, <1>10

LEMMA ReleasesKeep ==
    ASSUME TablesInv, ReleaseResult
    PROVE  /\ TablesInv' /\ UNCHANGED <<sheet, editing>>
           /\ Final => Final' /\ result' = result
<1>1. /\ UNCHANGED <<sheet, editing, generating>>
      /\ result' = result \/ result' = [result EXCEPT !.status = "approved"]
      BY DEF ReleaseResult, BeginRelease, Release
<1>2. result.status = "approved" => result' = result
      BY <1>1 DEF TablesInv
<1>3. TablesInv'
      BY <1>1 DEF TablesInv
<1>4. QED BY <1>1, <1>2, <1>3 DEF Final

LEMMA OthersKeep ==
    ASSUME TablesInv, EditByHand \/ UNCHANGED marksVars
    PROVE  TablesInv' /\ UNCHANGED <<sheet, editing, result, generating>>
<1>1. UNCHANGED <<sheet, editing, result, generating>>
      BY DEF EditByHand, marksVars, CommitHand, ApproveBatch, BeginApprove, DeleteResult,
         BeginUpdate, InsertByHand
<1>2. QED BY <1>1 DEF TablesInv

\* Published marks and a released result stand, however many teachers save,
\* publish, generate and release at once (academic.service.ts saveScoreSheetBatch,
\* generateScoreSheetResult).
THEOREM MarksDoStand == MarksInit /\ [][MarksNext]_marksVars => MarksStand
<1> DEFINE Stand == /\ \A s \in Sheets : Frozen(s) => Frozen(s)' /\ sheet'[s] = sheet[s]
                    /\ Final => Final' /\ result' = result
<1>1. TablesInv /\ [MarksNext]_marksVars => TablesInv' /\ Stand
  <2> SUFFICES ASSUME TablesInv, [MarksNext]_marksVars PROVE TablesInv' /\ Stand
      OBVIOUS
  <2>1. CASE EditSheets
        BY <2>1, EditsKeep DEF Final
  <2>2. CASE GenerateResult
        BY <2>2, GenerationsKeep DEF Frozen
  <2>3. CASE ReleaseResult
        BY <2>3, ReleasesKeep DEF Frozen
  <2>4. CASE EditByHand \/ UNCHANGED marksVars
        BY <2>4, OthersKeep DEF Frozen, Final
  <2>5. QED BY <2>1, <2>2, <2>3, <2>4 DEF MarksNext
<1>2. QED BY TablesInit, <1>1, PTL DEF MarksStand

-----------------------------------------------------------------------------
(* The older report card: ReportCards.                                     *)

\* The columns that there are; what is in them does not matter.
GenerationRow(at) ==
    at \in [pc : {at.pc}, records : {at.records}, found : {at.found}, left : {at.left},
            row : {at.row}, subject : {at.subject}]
LegacyRow(card) ==
    /\ card \in [id : {card.id}, subject : {card.subject}, total : {card.total},
                status : {card.status}]
    /\ card.id[2] = card.subject
CardShapes ==
    /\ DOMAIN generating = Generators /\ \A g \in Generators : GenerationRow(generating[g])
    /\ result \in [status : {result.status}, records : {result.records}]
    /\ \A card \in legacy : LegacyRow(card)

Agrees(sub) ==
    result.records[sub] = 0 \/ \E card \in LegacyOf(sub) : card.total = result.records[sub]

\* The generation that has the older card to itself has put right what it has
\* done, and the row that it has found is there.
GenerationInv(g) ==
    solo = g /\ Syncing(g) =>
       /\ \A h \in Generators : Syncing(h) => h = g
       /\ generating[g].records = result.records
       /\ \A sub \in Subjects : sub \in generating[g].left \/ Agrees(sub)
       /\ generating[g].pc = "put" /\ generating[g].row # NoRow =>
             \E card \in LegacyOf(generating[g].subject) : card.id = generating[g].row

LegacyInv ==
    /\ CardShapes
    /\ \A g \in Generators : GenerationInv(g)
    /\ ~torn => /\ \A g \in Generators : ~Syncing(g)
                /\ \A sub \in Subjects : Agrees(sub)

\* A step of generation g that leaves result and older card alone.
LEMMA GenerationMoves ==
    ASSUME LegacyInv, NEW g \in Generators, NEW next, GenerationRow(next),
           generating' = [generating EXCEPT ![g] = next],
           UNCHANGED <<result, legacy, solo, torn>>,
           next.pc \in {"find", "put"} =>
              /\ Syncing(g) /\ next.records = generating[g].records
              /\ next.left = generating[g].left
              /\ next.pc = "put" /\ next.row # NoRow =>
                    \E card \in LegacyOf(next.subject) : card.id = next.row
    PROVE  LegacyInv'
<1>1. /\ DOMAIN generating' = Generators /\ generating'[g] = next
      /\ \A h \in Generators : h # g => generating'[h] = generating[h]
      BY DEF LegacyInv, CardShapes
<1>2. CardShapes'
  <2>1. \A h \in Generators : GenerationRow(generating'[h])
        BY <1>1 DEF LegacyInv, CardShapes
  <2>2. QED BY <1>1, <2>1 DEF LegacyInv, CardShapes, GenerationRow, LegacyRow
<1>3. \A sub \in Subjects : Agrees(sub)' <=> Agrees(sub)
      BY DEF Agrees, LegacyOf
<1>4. \A h \in Generators : Syncing(h)' => Syncing(h)
      BY <1>1 DEF Syncing
<1>5. \A sub : LegacyOf(sub)' = LegacyOf(sub)
      BY DEF LegacyOf
<1>6. ASSUME NEW h \in Generators, solo = h, Syncing(h)'
      PROVE  /\ \A k \in Generators : Syncing(k)' => k = h
             /\ generating'[h].records = result'.records
             /\ \A sub \in Subjects : sub \in generating'[h].left \/ Agrees(sub)'
             /\ generating'[h].pc = "put" /\ generating'[h].row # NoRow =>
                   \E card \in LegacyOf(generating'[h].subject) : card.id = generating'[h].row
  <2>1. Syncing(h) /\ GenerationInv(h)
        BY <1>4, <1>6 DEF LegacyInv
  <2>2. CASE h = g
        BY <1>1, <1>3, <1>4, <1>6, <2>1, <2>2 DEF GenerationInv, Syncing
  <2>3. CASE h # g
        BY <1>1, <1>3, <1>4, <1>6, <2>1, <2>3 DEF GenerationInv
  <2>4. QED BY <2>2, <2>3
<1>7. ASSUME NEW h \in Generators PROVE GenerationInv(h)'
      BY <1>5, <1>6 DEF GenerationInv, LegacyOf
<1>8. QED BY <1>2, <1>3, <1>4, <1>7 DEF LegacyInv

LEMMA GenerationStepInv ==
    ASSUME LegacyInv, NEW g \in Generators,
           \/ \E taught \in SUBSET Subjects : PreviewMarks(g, taught)
           \/ \E sub \in Subjects : FindLegacy(g, sub)
           \/ CheckRelease(g) \/ AbandonGeneration(g)
    PROVE  LegacyInv'
<1>1. GenerationRow(generating[g]) /\ DOMAIN generating = Generators
      BY DEF LegacyInv, CardShapes
<1>2. ASSUME NEW taught \in SUBSET Subjects, PreviewMarks(g, taught) PROVE LegacyInv'
  <2> DEFINE next == [generating[g] EXCEPT !.pc = "check", !.records = Preview(taught)]
  <2>1. /\ generating' = [generating EXCEPT ![g] = next]
        /\ UNCHANGED <<result, legacy, solo, torn>>
        BY <1>2 DEF PreviewMarks
  <2>2. GenerationRow(next) /\ next.pc = "check"
        BY <1>1 DEF GenerationRow
  <2> HIDE DEF next
  <2>3. QED BY <2>1, <2>2, GenerationMoves
<1>3. ASSUME NEW sub \in Subjects, FindLegacy(g, sub) PROVE LegacyInv'
  <2>1. PICK found \in IF LegacyOf(sub) = {} THEN {NoRow} ELSE {card.id : card \in LegacyOf(sub)} :
           generating' = [generating EXCEPT ![g].pc = "put", ![g].row = found, ![g].subject = sub]
        BY <1>3 DEF FindLegacy
  <2> DEFINE next == [generating[g] EXCEPT !.pc = "put", !.row = found, !.subject = sub]
  <2>2. /\ generating' = [generating EXCEPT ![g] = next] /\ generating[g].pc = "find"
        /\ UNCHANGED <<result, legacy, solo, torn>>
        BY <1>3, <2>1 DEF FindLegacy
  <2>3. /\ GenerationRow(next) /\ next.pc = "put" /\ next.row = found /\ next.subject = sub
        /\ next.records = generating[g].records /\ next.left = generating[g].left
        BY <1>1 DEF GenerationRow
  <2>4. found # NoRow => \E card \in LegacyOf(sub) : card.id = found
        BY <2>1
  <2> HIDE DEF next
  <2>5. QED BY <2>2, <2>3, <2>4, GenerationMoves DEF Syncing
<1>4. CASE CheckRelease(g)
  <2> DEFINE next == [generating[g] EXCEPT !.pc = IF MayGenerate THEN "write" ELSE "done",
                                           !.found = result.status # "none"]
  <2>1. /\ generating' = [generating EXCEPT ![g] = next]
        /\ UNCHANGED <<result, legacy, solo, torn>>
        BY <1>4 DEF CheckRelease
  <2>2. GenerationRow(next) /\ next.pc \in {"write", "done"}
        BY <1>1 DEF GenerationRow
  <2> HIDE DEF next
  <2>3. QED BY <2>1, <2>2, GenerationMoves
<1>5. CASE AbandonGeneration(g)
  <2> DEFINE next == [IdleGeneration EXCEPT !.pc = "done"]
  <2>1. /\ generating' = [generating EXCEPT ![g] = next]
        /\ UNCHANGED <<result, legacy, solo, torn>>
        BY <1>5 DEF AbandonGeneration
  <2>2. GenerationRow(next) /\ next.pc = "done"
        BY DEF GenerationRow, IdleGeneration
  <2> HIDE DEF next
  <2>3. QED BY <2>1, <2>2, GenerationMoves
<1>6. QED BY <1>2, <1>3, <1>4, <1>5

LEMMA WriteResultInv ==
    ASSUME LegacyInv, NEW g \in Generators, WriteResult(g)
    PROVE  LegacyInv'
<1>1. GenerationRow(generating[g]) /\ DOMAIN generating = Generators /\ generating[g].pc = "write"
      BY DEF LegacyInv, CardShapes, WriteResult
<1>2. CASE generating[g].found \/ result.status = "none"
  <2> DEFINE next == [generating[g] EXCEPT !.pc = "find",
                         !.left = {sub \in Subjects : generating[g].records[sub] # 0}]
  <2>1. /\ generating' = [generating EXCEPT ![g] = next]
        /\ result' = [status |-> "pending", records |-> generating[g].records]
        /\ solo' = IF \E h \in Generators : Syncing(h) THEN NoGenerator ELSE g
        /\ torn' = TRUE /\ legacy' = legacy
        BY <1>2 DEF WriteResult
  <2>2. /\ GenerationRow(next) /\ next.pc = "find" /\ next.records = generating[g].records
        /\ next.left = {sub \in Subjects : generating[g].records[sub] # 0}
        BY <1>1 DEF GenerationRow
  <2> HIDE DEF next
  <2>3. /\ DOMAIN generating' = Generators /\ generating'[g] = next
        /\ \A h \in Generators : h # g => generating'[h] = generating[h]
        BY <1>1, <2>1
  <2>4. CardShapes'
    <3>1. \A h \in Generators : GenerationRow(generating'[h])
          BY <2>2, <2>3 DEF LegacyInv, CardShapes
    <3>2. result' \in [status : {result'.status}, records : {result'.records}]
          BY <2>1
    <3>3. QED BY <2>1, <2>3, <3>1, <3>2 DEF LegacyInv, CardShapes, GenerationRow, LegacyRow
  <2>5. ASSUME NEW h \in Generators PROVE GenerationInv(h)'
    <3>1. CASE solo' # h
          BY <3>1 DEF GenerationInv
    <3>2. CASE solo' = h
      <4>1. h = g /\ \A k \in Generators : ~Syncing(k)
            BY <2>1, <3>2, ReportCardsAssumption
      <4>2. \A k \in Generators : Syncing(k)' => k = g
            BY <2>3, <4>1 DEF Syncing
      <4>3. \A sub \in Subjects : sub \in next.left \/ Agrees(sub)'
            BY <2>1, <2>2 DEF Agrees
      <4>4. QED BY <2>1, <2>2, <2>3, <4>1, <4>2, <4>3 DEF GenerationInv
    <3>3. QED BY <3>1, <3>2
  <2>6. QED BY <2>1, <2>4, <2>5 DEF LegacyInv
<1>3. CASE ~(generating[g].found \/ result.status = "none")
  <2> DEFINE next == [generating[g] EXCEPT !.pc = "done"]
  <2>1. /\ generating' = [generating EXCEPT ![g] = next]
        /\ UNCHANGED <<result, legacy, solo, torn>>
        BY <1>3 DEF WriteResult
  <2>2. GenerationRow(next) /\ next.pc = "done"
        BY <1>1 DEF GenerationRow
  <2> HIDE DEF next
  <2>3. QED BY <2>1, <2>2, GenerationMoves
<1>4. QED BY <1>2, <1>3

\* What an update of the row with this id leaves.
LEMMA RewriteRows ==
    ASSUME \A card \in legacy : LegacyRow(card), NEW id, NEW total, NEW status
    PROVE  /\ \A new \in Rewrite(id, total, status) : LegacyRow(new)
           /\ \A card \in legacy : \E new \in Rewrite(id, total, status) :
                 /\ new.id = card.id /\ new.subject = card.subject
                 /\ new.total = IF card.id = id THEN total ELSE card.total
<1> DEFINE New(card) ==
             IF card.id = id THEN [card EXCEPT !.total = total, !.status = status] ELSE card
<1>1. ASSUME NEW card \in legacy
      PROVE  /\ LegacyRow(New(card)) /\ New(card).id = card.id /\ New(card).subject = card.subject
             /\ New(card).total = IF card.id = id THEN total ELSE card.total
  <2>1. LegacyRow(card)
        OBVIOUS
  <2>2. CASE card.id = id
        BY <2>1, <2>2 DEF LegacyRow
  <2>3. CASE card.id # id
        BY <2>1, <2>3
  <2>4. QED BY <2>2, <2>3
<1>2. Rewrite(id, total, status) = {New(card) : card \in legacy}
      BY DEF Rewrite
<1> HIDE DEF New
<1>3. QED BY <1>1, <1>2

LEMMA PutLegacyInv ==
    ASSUME LegacyInv, NEW g \in Generators, PutLegacy(g)
    PROVE  LegacyInv'
<1>1. PICK at : at = generating[g]
      OBVIOUS
<1> DEFINE next == [at EXCEPT !.pc = "find", !.left = at.left \ {at.subject}]
           card == [id |-> <<g, at.subject>>, subject |-> at.subject,
                   total |-> at.records[at.subject], status |-> "submitted"]
<1>2. /\ GenerationRow(at) /\ DOMAIN generating = Generators /\ at.pc = "put" /\ Syncing(g)
      /\ UNCHANGED <<result, solo, torn>>
      /\ legacy' = IF at.row = NoRow THEN legacy \cup {card}
                   ELSE Rewrite(at.row, at.records[at.subject], "submitted")
      /\ generating' = [generating EXCEPT ![g] = next]
      BY <1>1 DEF LegacyInv, CardShapes, PutLegacy, Syncing
<1>3. /\ GenerationRow(next) /\ next.pc = "find" /\ next.records = at.records
      /\ next.left = at.left \ {at.subject}
      BY <1>2 DEF GenerationRow
<1>4. LegacyRow(card) /\ card.subject = at.subject /\ card.total = at.records[at.subject]
      BY DEF LegacyRow
<1> HIDE DEF next, card
<1>5. /\ DOMAIN generating' = Generators /\ generating'[g] = next
      /\ \A h \in Generators : h # g => generating'[h] = generating[h]
      BY <1>2
<1>6. \A old \in legacy : LegacyRow(old)
      BY DEF LegacyInv, CardShapes
<1>7. /\ \A new \in Rewrite(at.row, at.records[at.subject], "submitted") : LegacyRow(new)
      /\ \A old \in legacy : \E new \in Rewrite(at.row, at.records[at.subject], "submitted") :
            /\ new.id = old.id /\ new.subject = old.subject
            /\ new.total = IF old.id = at.row THEN at.records[at.subject] ELSE old.total
      BY <1>6, RewriteRows
<1>8. CardShapes'
  <2>1. \A h \in Generators : GenerationRow(generating'[h])
        BY <1>3, <1>5 DEF LegacyInv, CardShapes
  <2>2. \A new \in legacy' : LegacyRow(new)
        BY <1>2, <1>4, <1>6, <1>7
  <2>3. QED BY <1>2, <1>5, <2>1, <2>2 DEF LegacyInv, CardShapes, GenerationRow, LegacyRow
<1>9. torn
      BY <1>2 DEF LegacyInv
<1>10. ASSUME NEW h \in Generators PROVE GenerationInv(h)'
  <2>1. CASE solo' # h
        BY <2>1 DEF GenerationInv
  <2>2. CASE solo' = h /\ h # g
    <3>1. ~Syncing(h)
          BY <1>2, <2>2 DEF LegacyInv, GenerationInv
    <3>2. ~Syncing(h)'
          BY <1>5, <2>2, <3>1 DEF Syncing
    <3>3. QED BY <3>2 DEF GenerationInv
  <2>3. CASE solo' = h /\ h = g
    <3>1. /\ \A k \in Generators : Syncing(k) => k = g
          /\ at.records = result.records
          /\ \A sub \in Subjects : sub \in at.left \/ Agrees(sub)
          /\ at.row # NoRow => \E old \in LegacyOf(at.subject) : old.id = at.row
          BY <1>1, <1>2, <2>3 DEF LegacyInv, GenerationInv
    <3>2. \A k \in Generators : Syncing(k)' => k = g
          BY <1>5, <3>1 DEF Syncing
    <3>3. at.subject \in Subjects => Agrees(at.subject)'
      <4>1. CASE at.row = NoRow
            BY <1>2, <1>4, <3>1, <4>1 DEF Agrees, LegacyOf
      <4>2. CASE at.row # NoRow
        <5>1. PICK old \in legacy : old.subject = at.subject /\ old.id = at.row
              BY <3>1, <4>2 DEF LegacyOf
        <5>2. PICK new \in legacy' :
                 new.subject = at.subject /\ new.total = at.records[at.subject]
              BY <1>2, <1>7, <4>2, <5>1
        <5>3. QED BY <1>2, <3>1, <5>2 DEF Agrees, LegacyOf
      <4>3. QED BY <4>1, <4>2
    <3>4. ASSUME NEW sub \in Subjects, sub # at.subject, Agrees(sub) PROVE Agrees(sub)'
      <4>1. CASE result.records[sub] = 0
            BY <1>2, <4>1 DEF Agrees
      <4>2. CASE result.records[sub] # 0
        <5>1. PICK old \in legacy : old.subject = sub /\ old.total = result.records[sub]
              BY <3>4, <4>2 DEF Agrees, LegacyOf
        <5>2. at.row # NoRow => old.id # at.row
              BY <1>6, <3>1, <3>4, <5>1 DEF LegacyOf, LegacyRow
        <5>3. PICK new \in legacy' : new.subject = sub /\ new.total = result.records[sub]
              BY <1>2, <1>7, <5>1, <5>2
        <5>4. QED BY <1>2, <5>3 DEF Agrees, LegacyOf
      <4>3. QED BY <4>1, <4>2
    <3>5. \A sub \in Subjects : sub \in next.left \/ Agrees(sub)'
          BY <1>3, <3>1, <3>3, <3>4
    <3>6. QED BY <1>2, <1>3, <1>5, <2>3, <3>1, <3>2, <3>5 DEF GenerationInv
  <2>4. QED BY <2>1, <2>2, <2>3
<1>11. QED BY <1>2, <1>8, <1>9, <1>10 DEF LegacyInv

LEMMA EndGenerationInv ==
    ASSUME LegacyInv, NEW g \in Generators, EndGeneration(g)
    PROVE  LegacyInv'
<1> DEFINE next == [generating[g] EXCEPT !.pc = "done"]
<1>1. /\ GenerationRow(generating[g]) /\ DOMAIN generating = Generators
      /\ generating[g].pc = "find" /\ generating[g].left = {} /\ Syncing(g)
      /\ generating' = [generating EXCEPT ![g] = next]
      /\ UNCHANGED <<result, legacy, solo>>
      /\ torn' <=> torn /\ solo # g
      BY DEF LegacyInv, CardShapes, EndGeneration, Syncing
<1>2. GenerationRow(next) /\ next.pc = "done"
      BY <1>1 DEF GenerationRow
<1> HIDE DEF next
<1>3. /\ DOMAIN generating' = Generators /\ generating'[g] = next
      /\ \A h \in Generators : h # g => generating'[h] = generating[h]
      BY <1>1
<1>4. torn
      BY <1>1 DEF LegacyInv
<1>5. CardShapes'
  <2>1. \A h \in Generators : GenerationRow(generating'[h])
        BY <1>2, <1>3 DEF LegacyInv, CardShapes
  <2>2. QED BY <1>1, <1>3, <2>1 DEF LegacyInv, CardShapes, GenerationRow, LegacyRow
<1>6. \A sub \in Subjects : Agrees(sub)' <=> Agrees(sub)
      BY <1>1 DEF Agrees, LegacyOf
<1>7. ~Syncing(g)' /\ \A h \in Generators : Syncing(h)' => Syncing(h)
      BY <1>2, <1>3 DEF Syncing
<1>8. ASSUME NEW h \in Generators PROVE GenerationInv(h)'
  <2>1. CASE ~(solo' = h /\ Syncing(h)')
        BY <2>1 DEF GenerationInv
  <2>2. CASE solo' = h /\ Syncing(h)'
    <3>1. h # g /\ Syncing(h) /\ solo = h /\ GenerationInv(h)
          BY <1>1, <1>7, <2>2 DEF LegacyInv
    <3>2. FALSE
          BY <1>1, <3>1 DEF GenerationInv
    <3>3. QED BY <3>2
  <2>3. QED BY <2>1, <2>2
<1>9. ASSUME ~torn'
      PROVE  (\A h \in Generators : ~Syncing(h)') /\ \A sub \in Subjects : Agrees(sub)'
  <2>1. solo = g /\ GenerationInv(g)
        BY <1>1, <1>4, <1>9 DEF LegacyInv
  <2>2. QED BY <1>1, <1>6, <1>7, <2>1 DEF GenerationInv
<1>10. QED BY <1>5, <1>8, <1>9 DEF LegacyInv

\* Releases, approvals and edits of sheets leave all totals as they are.
LEMMA KeepsTotals ==
    ASSUME LegacyInv, result' \in [status : {result'.status}, records : {result.records}],
           UNCHANGED <<generating, solo, torn>>,
           \A new \in legacy' : LegacyRow(new),
           \A card \in legacy : \E new \in legacy' :
              new.id = card.id /\ new.subject = card.subject /\ new.total = card.total
    PROVE  LegacyInv'
<1>1. result'.records = result.records
      OBVIOUS
<1>2. CardShapes'
      BY <1>1 DEF LegacyInv, CardShapes, GenerationRow, LegacyRow
<1>3. ASSUME NEW sub \in Subjects, Agrees(sub) PROVE Agrees(sub)'
      BY <1>1, <1>3 DEF Agrees, LegacyOf
<1>4. ASSUME NEW g \in Generators PROVE GenerationInv(g)'
  <2>1. GenerationInv(g) /\ (Syncing(g)' <=> Syncing(g))
        BY DEF LegacyInv, Syncing
  <2>2. ASSUME \E card \in LegacyOf(generating[g].subject) : card.id = generating[g].row
        PROVE  (\E card \in LegacyOf(generating[g].subject) : card.id = generating[g].row)'
        BY <2>2 DEF LegacyOf
  <2>3. \A h \in Generators : Syncing(h)' <=> Syncing(h)
        BY DEF Syncing
  <2>4. QED BY <1>1, <1>3, <2>1, <2>2, <2>3 DEF GenerationInv
<1>5. QED BY <1>2, <1>3, <1>4 DEF LegacyInv, Syncing

\* An edit of the older card by hand, which the generation that had it to itself
\* has not any more.
LEMMA Disturbs ==
    ASSUME LegacyInv, Disturb, UNCHANGED <<generating, result>>,
           \A new \in legacy' : LegacyRow(new)
    PROVE  LegacyInv'
<1>1. CardShapes'
      BY DEF LegacyInv, CardShapes, GenerationRow, LegacyRow
<1>2. torn' /\ solo' \notin Generators
      BY ReportCardsAssumption DEF Disturb
<1>3. \A g \in Generators : GenerationInv(g)'
      BY <1>2 DEF GenerationInv
<1>4. QED BY <1>1, <1>2, <1>3 DEF LegacyInv

\* A row with another status is a row with the same total.
LEMMA OtherStatus ==
    ASSUME NEW card, LegacyRow(card), NEW status, NEW new, new = [card EXCEPT !.status = status]
    PROVE  /\ LegacyRow(new) /\ new.id = card.id /\ new.subject = card.subject
           /\ new.total = card.total
BY DEF LegacyRow

LEMMA EditByHandInv ==
    ASSUME LegacyInv, NEW k \in Hands,
           \/ CommitHand(k) \/ ApproveBatch(k)
           \/ \E card \in legacy : BeginApprove(k, card) \/ DeleteResult(k, card)
           \/ \E card \in legacy, total \in Scores \cup {0},
                 status \in {"draft", "submitted", "unset"} :
                 BeginUpdate(k, card, total, status)
           \/ \E sub \in Subjects, total \in Scores, status \in {"draft", "submitted"} :
                 InsertByHand(k, sub, total, status)
    PROVE  LegacyInv'
<1>1. \A card \in legacy : LegacyRow(card)
      BY DEF LegacyInv, CardShapes
<1>2. result \in [status : {result.status}, records : {result.records}]
      BY DEF LegacyInv, CardShapes
<1>3. ASSUME UNCHANGED <<generating, result, legacy, solo, torn>> PROVE LegacyInv'
      BY <1>1, <1>2, <1>3, KeepsTotals
<1>4. CASE CommitHand(k)
  <2>1. CASE legacy' = Rewrite(hand[k].row, hand[k].total, hand[k].status) /\ Disturb
    <3>1. \A new \in legacy' : LegacyRow(new)
          BY <1>1, <2>1, RewriteRows
    <3>2. QED BY <1>4, <2>1, <3>1, Disturbs DEF CommitHand
  <2>2. CASE /\ legacy' = {[card EXCEPT !.status =
                              IF card.id = hand[k].row THEN "approved" ELSE @] : card \in legacy}
             /\ UNCHANGED <<solo, torn>>
    <3> DEFINE New(card) == [card EXCEPT !.status =
                              IF card.id = hand[k].row THEN "approved" ELSE card.status]
    <3>1. legacy' = {New(card) : card \in legacy}
          BY <2>2
    <3>2. \A card \in legacy : /\ LegacyRow(New(card)) /\ New(card).id = card.id
                             /\ New(card).subject = card.subject /\ New(card).total = card.total
          BY <1>1, OtherStatus
    <3> HIDE DEF New
    <3>3. \A new \in legacy' : LegacyRow(new)
          BY <3>1, <3>2
    <3>4. \A card \in legacy : \E new \in legacy' :
             new.id = card.id /\ new.subject = card.subject /\ new.total = card.total
          BY <3>1, <3>2
    <3>5. UNCHANGED <<generating, result>>
          BY <1>4 DEF CommitHand
    <3>6. QED BY <1>2, <2>2, <3>3, <3>4, <3>5, KeepsTotals
  <2>3. QED BY <1>4, <2>1, <2>2 DEF CommitHand
<1>5. CASE ApproveBatch(k)
  <2>1. /\ legacy' = {[card EXCEPT !.status = "approved"] : card \in legacy}
        /\ UNCHANGED <<generating, result, solo, torn>>
        BY <1>5 DEF ApproveBatch
  <2> DEFINE New(card) == [card EXCEPT !.status = "approved"]
  <2>2. legacy' = {New(card) : card \in legacy}
        BY <2>1
  <2>3. \A card \in legacy : /\ LegacyRow(New(card)) /\ New(card).id = card.id
                           /\ New(card).subject = card.subject /\ New(card).total = card.total
        BY <1>1, OtherStatus
  <2> HIDE DEF New
  <2>4. \A new \in legacy' : LegacyRow(new)
        BY <2>2, <2>3
  <2>5. \A card \in legacy : \E new \in legacy' :
           new.id = card.id /\ new.subject = card.subject /\ new.total = card.total
        BY <2>2, <2>3
  <2>6. QED BY <1>2, <2>1, <2>4, <2>5, KeepsTotals
<1>6. ASSUME NEW card \in legacy, BeginApprove(k, card) \/ DeleteResult(k, card) PROVE LegacyInv'
  <2>1. CASE BeginApprove(k, card)
        BY <1>3, <2>1 DEF BeginApprove
  <2>2. CASE DeleteResult(k, card)
        BY <1>1, <2>2, Disturbs DEF DeleteResult
  <2>3. QED BY <1>6, <2>1, <2>2
<1>7. ASSUME NEW card \in legacy, NEW total \in Scores \cup {0},
             NEW status \in {"draft", "submitted", "unset"}, BeginUpdate(k, card, total, status)
      PROVE  LegacyInv'
      BY <1>3, <1>7 DEF BeginUpdate
<1>8. ASSUME NEW sub \in Subjects, NEW total \in Scores, NEW status \in {"draft", "submitted"},
             InsertByHand(k, sub, total, status)
      PROVE  LegacyInv'
  <2> DEFINE card == [id |-> <<k, sub>>, subject |-> sub, total |-> total, status |-> status]
  <2>1. legacy' = legacy \cup {card} /\ Disturb /\ UNCHANGED <<generating, result>>
        BY <1>8 DEF InsertByHand
  <2>2. LegacyRow(card)
        BY DEF LegacyRow
  <2> HIDE DEF card
  <2>3. QED BY <1>1, <2>1, <2>2, Disturbs
<1>9. QED BY <1>4, <1>5, <1>6, <1>7, <1>8

LEMMA LegacyStart ==
    ASSUME MarksInit
    PROVE  LegacyInv
<1>1. generating = [g \in Generators |-> IdleGeneration] /\ legacy = {} /\ solo = NoGenerator
      /\ result = [status |-> "none", records |-> NoRecords]
      BY DEF MarksInit
<1>2. CardShapes
      BY <1>1 DEF CardShapes, GenerationRow, IdleGeneration
<1>3. \A g \in Generators : ~Syncing(g)
      BY <1>1 DEF Syncing, IdleGeneration
<1>4. \A sub \in Subjects : Agrees(sub)
      BY <1>1 DEF Agrees, NoRecords
<1>5. QED BY <1>2, <1>3, <1>4 DEF LegacyInv, GenerationInv

LEMMA LegacyStep ==
    ASSUME LegacyInv, [MarksNext]_marksVars
    PROVE  LegacyInv'
<1>1. \A card \in legacy : LegacyRow(card)
      BY DEF LegacyInv, CardShapes
<1>2. result \in [status : {result.status}, records : {result.records}]
      BY DEF LegacyInv, CardShapes
<1>3. ASSUME UNCHANGED <<generating, result, legacy, solo, torn>> PROVE LegacyInv'
      BY <1>1, <1>2, <1>3, KeepsTotals
<1>4. CASE EditSheets
      BY <1>3, <1>4 DEF EditSheets, CommitEdit, InsertSheet, BeginDelete, BeginPublish,
                        BeginSave, BeginEdit
<1>5. CASE GenerateResult
      BY <1>5, GenerationStepInv, WriteResultInv, PutLegacyInv, EndGenerationInv
         DEF GenerateResult
<1>6. ASSUME NEW a \in Releasers, BeginRelease(a) PROVE LegacyInv'
      BY <1>3, <1>6 DEF BeginRelease
<1>7. ASSUME NEW a \in Releasers, Release(a) PROVE LegacyInv'
  <2>1. /\ result' = [result EXCEPT !.status = "approved"]
        /\ UNCHANGED <<generating, legacy, solo, torn>>
        BY <1>7 DEF Release
  <2>2. result' \in [status : {result'.status}, records : {result.records}]
        BY <1>2, <2>1
  <2>3. QED BY <1>1, <2>1, <2>2, KeepsTotals
<1>8. CASE EditByHand
      BY <1>8, EditByHandInv DEF EditByHand
<1>9. CASE UNCHANGED marksVars
      BY <1>3, <1>9 DEF marksVars
<1>10. QED BY <1>4, <1>5, <1>6, <1>7, <1>8, <1>9 DEF MarksNext, ReleaseResult

(***************************************************************************)
(* Once a generation has got through by itself, the older report card      *)
(* agrees with the generated result on every subject of it.                *)
(* (generateScoreSheetResult: "Keep the legacy report-card reader in sync".)*)
(***************************************************************************)
THEOREM LegacyIsInSync == MarksSpec => []LegacyInSync
<1>1. MarksInit => LegacyInv
      BY LegacyStart
<1>2. LegacyInv /\ [MarksNext]_marksVars => LegacyInv'
      BY LegacyStep
<1>3. LegacyInv => LegacyInSync
      BY DEF LegacyInv, LegacyInSync, Agrees
<1>4. QED BY <1>1, <1>2, <1>3, PTL DEF MarksSpec

\* The older rows carry their ids and totals; and however many sheets there
\* could be, those that were inserted are finitely many.
LegacyRows == [id : (Generators \cup Hands) \X Subjects, subject : Subjects, total : Nat,
               status : LegacyStatuses]
HandRows == [op : {"none", "update", "approve"}, row : LegacyIds, total : Nat,
             status : LegacyStatuses]
LiveSheets == {s \in Sheets : Live(s)}
SheetTypes ==
    /\ sheet \in [Sheets -> SheetRows] /\ editing \in [Editors -> Edits]
    /\ IsFiniteSet(LiveSheets)
ResultTypes ==
    /\ result \in [status : {"none", "pending", "approved"}, records : Records]
    /\ generating \in [Generators -> GenerationRows]
LegacyTypes == legacy \subseteq LegacyRows /\ hand \in [Hands -> HandRows]
MarksGhosts ==
    /\ releasing \subseteq Releasers /\ solo \in Generators \cup {NoGenerator} /\ torn \in BOOLEAN
MarksInv == SheetTypes /\ ResultTypes /\ LegacyTypes /\ MarksGhosts

LEMMA MarksConstants ==
    /\ AnySubject \in Subjects /\ Scores \subseteq Nat /\ NoEdit \in Edits
    /\ NoRecords \in Records /\ NoRow \in LegacyIds /\ (Generators \cup Hands) \X Subjects \subseteq LegacyIds
    /\ NoHand \in HandRows /\ IdleGeneration \in GenerationRows /\ NoSheetRow \in SheetRows
<1>1. AnySubject \in Subjects /\ Scores \subseteq Nat
      BY ReportCardsAssumption DEF AnySubject
<1>2. NoRow \in LegacyIds /\ (Generators \cup Hands) \X Subjects \subseteq LegacyIds
      BY DEF LegacyIds
<1>3. NoRecords \in Records
      BY DEF NoRecords, Records
<1>4. NoEdit \in Edits /\ NoSheetRow \in SheetRows
      BY <1>1 DEF NoEdit, Edits, NoSheetRow, SheetRows
<1>5. NoHand \in HandRows
      BY <1>2 DEF NoHand, HandRows, LegacyStatuses
<1>6. IdleGeneration \in GenerationRows
      BY <1>1, <1>2, <1>3 DEF IdleGeneration, GenerationRows
<1>7. QED BY <1>1, <1>2, <1>3, <1>4, <1>5, <1>6

\* A preview adds up the marks of finitely many sheets.
LEMMA PreviewIsRecords ==
    ASSUME SheetTypes, NEW taught \in SUBSET Subjects
    PROVE  Preview(taught) \in Records
<1> DEFINE f == [s \in Sheets |-> sheet[s].score]
<1>1. ASSUME NEW sub \in Subjects PROVE SumFunctionOnSet(f, SheetsOf(sub)) \in Nat
  <2>1. SheetsOf(sub) \in SUBSET LiveSheets
        BY DEF SheetsOf, LiveSheets
  <2>2. IsFiniteSet(SheetsOf(sub))
        BY <2>1, FS_Subset DEF SheetTypes
  <2>3. \A s \in SheetsOf(sub) : f[s] \in Nat
    <3>1. SUFFICES ASSUME NEW s \in SheetsOf(sub) PROVE f[s] \in Nat
          OBVIOUS
    <3>2. s \in Sheets /\ f[s] = sheet[s].score
          BY DEF SheetsOf
    <3>3. sheet[s].score \in Scores \cup {0}
          BY <3>2 DEF SheetTypes, SheetRows
    <3> HIDE DEF f
    <3>4. Scores \cup {0} \subseteq Nat
          BY MarksConstants
    <3>5. sheet[s].score \in Nat
          BY <3>3, <3>4
    <3>6. QED BY <3>2, <3>5
  <2> HIDE DEF f
  <2>4. QED BY <2>2, <2>3, SumIsNat
<1>2. Preview(taught) = [sub \in Subjects |->
          IF sub \in taught THEN SumFunctionOnSet(f, SheetsOf(sub)) ELSE 0]
      BY DEF Preview
<1> HIDE DEF f
<1>3. QED BY <1>1, <1>2 DEF Records

LEMMA SheetTypesStep ==
    ASSUME SheetTypes, EditSheets
    PROVE  SheetTypes'
<1>1. ASSUME NEW e \in Editors, NEW edit \in Edits, BeginEdit(e, edit) PROVE SheetTypes'
  <2>1. UNCHANGED sheet /\ editing' \in [Editors -> Edits]
        BY <1>1 DEF BeginEdit, SheetTypes
  <2>2. QED BY <2>1 DEF SheetTypes, LiveSheets, Live
<1>2. ASSUME NEW e \in Editors, CommitEdit(e) PROVE SheetTypes'
  <2>1. PICK edit \in Edits : edit = editing[e]
        BY DEF SheetTypes
  <2>2. ASSUME NEW s \in Sheets PROVE Edited(edit, sheet[s]) \in SheetRows
        BY <2>1 DEF SheetTypes, SheetRows, Edits, Edited
  <2>3. /\ sheet' = [s \in Sheets |->
              IF s \in edit.of /\ Live(s) THEN Edited(edit, sheet[s]) ELSE sheet[s]]
        /\ editing' = [editing EXCEPT ![e] = NoEdit]
        BY <1>2, <2>1 DEF CommitEdit
  <2>4. sheet' \in [Sheets -> SheetRows] /\ editing' \in [Editors -> Edits]
        BY <2>2, <2>3, MarksConstants DEF SheetTypes
  <2>5. \A s \in Sheets : ~Live(s) => sheet'[s] = sheet[s]
        BY <2>3
  <2>6. LiveSheets' \subseteq LiveSheets
        BY <2>5 DEF LiveSheets, Live
  <2>7. QED BY <2>4, <2>6, FS_Subset DEF SheetTypes
<1>3. ASSUME NEW e \in Editors, NEW s \in Sheets, InsertSheet(e, s) PROVE SheetTypes'
  <2>1. editing[e] \in Edits /\ editing' = [editing EXCEPT ![e] = NoEdit]
        BY <1>3 DEF InsertSheet, SheetTypes
  <2>2. PICK row \in SheetRows : sheet' = [sheet EXCEPT ![s] = row]
        BY <1>3, <2>1 DEF InsertSheet, Edits, SheetRows
  <2>3. sheet' \in [Sheets -> SheetRows] /\ editing' \in [Editors -> Edits]
        BY <2>1, <2>2, MarksConstants DEF SheetTypes
  <2>4. LiveSheets' \subseteq LiveSheets \cup {s}
        BY <2>2 DEF SheetTypes, LiveSheets, Live
  <2>5. IsFiniteSet(LiveSheets \cup {s})
        BY FS_AddElement DEF SheetTypes
  <2>6. QED BY <2>3, <2>4, <2>5, FS_Subset DEF SheetTypes
<1>4. ASSUME NEW e \in Editors, NEW s \in Sheets, BeginDelete(e, s) PROVE SheetTypes'
  <2>1. [NoEdit EXCEPT !.op = "delete", !.of = {s}] \in Edits
        BY MarksConstants DEF Edits
  <2>2. QED BY <1>1, <1>4, <2>1 DEF BeginDelete
<1>5. ASSUME NEW e \in Editors, NEW S \in SUBSET Sheets, BeginPublish(e, S) PROVE SheetTypes'
  <2>1. [NoEdit EXCEPT !.op = "publish", !.of = S] \in Edits
        BY MarksConstants DEF Edits
  <2>2. QED BY <1>1, <1>5, <2>1 DEF BeginPublish
<1>6. ASSUME NEW e \in Editors, NEW s \in Sheets \cup {NoSheet}, NEW sub \in Subjects,
             NEW score \in Scores, NEW status \in {"draft", "published"},
             BeginSave(e, s, sub, score, status)
      PROVE  SheetTypes'
  <2>1. PICK op \in {"update", "insert"}, of \in SUBSET Sheets :
           BeginEdit(e, [op |-> op, of |-> of, subject |-> sub, score |-> score, status |-> status])
    <3>1. CASE s # NoSheet /\ Live(s)
      <4>1. BeginEdit(e, [op |-> "update", of |-> {s}, subject |-> sub, score |-> score,
                          status |-> status])
            BY <1>6, <3>1 DEF BeginSave
      <4>2. {s} \in SUBSET Sheets
            BY <3>1
      <4>3. QED BY <4>1, <4>2
    <3>2. CASE ~(s # NoSheet /\ Live(s))
      <4>1. BeginEdit(e, [op |-> "insert", of |-> {}, subject |-> sub, score |-> score,
                          status |-> status])
            BY <1>6, <3>2 DEF BeginSave
      <4>2. QED BY <4>1
    <3>3. QED BY <3>1, <3>2
  <2>2. [op |-> op, of |-> of, subject |-> sub, score |-> score, status |-> status] \in Edits
        BY DEF Edits
  <2>3. QED BY <1>1, <2>1, <2>2
<1>7. QED BY <1>2, <1>3, <1>4, <1>5, <1>6 DEF EditSheets

LEMMA ResultTypesStep ==
    ASSUME SheetTypes, ResultTypes, LegacyTypes, GenerateResult
    PROVE  ResultTypes'
<1>1. PICK g \in Generators :
         \/ \E taught \in SUBSET Subjects : PreviewMarks(g, taught)
         \/ CheckRelease(g) \/ WriteResult(g) \/ PutLegacy(g) \/ EndGeneration(g) \/ AbandonGeneration(g)
         \/ \E sub \in Subjects : FindLegacy(g, sub)
      BY DEF GenerateResult
<1>2. generating[g] \in GenerationRows
      BY DEF ResultTypes
<1>3. ASSUME NEW next \in GenerationRows, generating' = [generating EXCEPT ![g] = next],
             \/ result' = result
             \/ result' = [status |-> "pending", records |-> generating[g].records]
      PROVE  ResultTypes'
  <2>1. generating[g].records \in Records
        BY <1>2 DEF GenerationRows
  <2>2. QED BY <1>3, <2>1 DEF ResultTypes
<1>4. ASSUME NEW taught \in SUBSET Subjects, PreviewMarks(g, taught) PROVE ResultTypes'
  <2>1. PICK records \in Records : records = Preview(taught)
        BY PreviewIsRecords
  <2>2. PICK next : next = [generating[g] EXCEPT !.pc = "check", !.records = records]
        OBVIOUS
  <2>3. next \in GenerationRows
        BY <1>2, <2>2 DEF GenerationRows
  <2>4. generating' = [generating EXCEPT ![g] = next] /\ result' = result
        BY <1>4, <2>1, <2>2 DEF PreviewMarks
  <2>5. QED BY <1>3, <2>3, <2>4
<1>5. CASE CheckRelease(g)
  <2>1. PICK found \in BOOLEAN, pc \in {"write", "done"} :
           generating' = [generating EXCEPT ![g] = [generating[g] EXCEPT !.pc = pc, !.found = found]]
        BY <1>5 DEF CheckRelease
  <2>2. PICK next : next = [generating[g] EXCEPT !.pc = pc, !.found = found]
        OBVIOUS
  <2>3. next \in GenerationRows
        BY <1>2, <2>2 DEF GenerationRows
  <2>4. result' = result
        BY <1>5 DEF CheckRelease
  <2>5. QED BY <1>3, <2>1, <2>2, <2>3, <2>4
<1>6. CASE WriteResult(g)
  <2>1. PICK left \in SUBSET Subjects, pc \in {"find", "done"} :
           generating' = [generating EXCEPT ![g] = [generating[g] EXCEPT !.pc = pc, !.left = left]]
    <3>1. CASE generating[g].found \/ result.status = "none"
      <4>1. PICK left \in SUBSET Subjects : left = {sub \in Subjects : generating[g].records[sub] # 0}
            OBVIOUS
      <4>2. generating' = [generating EXCEPT ![g].pc = "find", ![g].left = left]
            BY <1>6, <3>1, <4>1 DEF WriteResult
      <4>3. QED BY <4>2
    <3>2. CASE ~(generating[g].found \/ result.status = "none")
      <4>1. PICK left \in SUBSET Subjects : left = generating[g].left
            BY <1>2 DEF GenerationRows
      <4>2. generating' = [generating EXCEPT ![g].pc = "done"]
            BY <1>6, <3>2 DEF WriteResult
      <4>3. [generating[g] EXCEPT !.pc = "done"] = [generating[g] EXCEPT !.pc = "done", !.left = left]
            BY <1>2, <4>1 DEF GenerationRows
      <4>4. generating' = [generating EXCEPT ![g] = [generating[g] EXCEPT !.pc = "done", !.left = left]]
            BY <4>2, <4>3
      <4>5. QED BY <4>4
    <3>3. QED BY <3>1, <3>2
  <2>2. PICK next : next = [generating[g] EXCEPT !.pc = pc, !.left = left]
        OBVIOUS
  <2>3. next \in GenerationRows
        BY <1>2, <2>2 DEF GenerationRows
  <2>4. \/ result' = result
        \/ result' = [status |-> "pending", records |-> generating[g].records]
        BY <1>6 DEF WriteResult
  <2>5. QED BY <1>3, <2>1, <2>2, <2>3, <2>4
<1>7. CASE PutLegacy(g)
  <2>1. PICK next : next = [generating[g] EXCEPT !.pc = "find", !.left = @ \ {generating[g].subject}]
        OBVIOUS
  <2>2. next \in GenerationRows
        BY <1>2, <2>1 DEF GenerationRows
  <2>3. generating' = [generating EXCEPT ![g] = next] /\ result' = result
        BY <1>7, <2>1 DEF PutLegacy
  <2>4. QED BY <1>3, <2>2, <2>3
<1>8. CASE EndGeneration(g)
  <2>1. PICK next : next = [generating[g] EXCEPT !.pc = "done"]
        OBVIOUS
  <2>2. next \in GenerationRows
        BY <1>2, <2>1 DEF GenerationRows
  <2>3. generating' = [generating EXCEPT ![g] = next] /\ result' = result
        BY <1>8, <2>1 DEF EndGeneration
  <2>4. QED BY <1>3, <2>2, <2>3
<1>9. CASE AbandonGeneration(g)
  <2>1. [IdleGeneration EXCEPT !.pc = "done"] \in GenerationRows
        BY MarksConstants DEF GenerationRows
  <2>2. QED BY <1>3, <1>9, <2>1 DEF AbandonGeneration
<1>10. ASSUME NEW sub \in Subjects, FindLegacy(g, sub) PROVE ResultTypes'
  <2>1. PICK found \in LegacyIds :
           generating' = [generating EXCEPT ![g] =
              [generating[g] EXCEPT !.pc = "put", !.row = found, !.subject = sub]]
    <3>1. {row.id : row \in LegacyOf(sub)} \subseteq LegacyIds
          BY MarksConstants DEF LegacyOf, LegacyTypes, LegacyRows
    <3>2. \E found \in {NoRow} \cup {row.id : row \in LegacyOf(sub)} :
             generating' = [generating EXCEPT ![g].pc = "put", ![g].row = found, ![g].subject = sub]
          BY <1>10 DEF FindLegacy
    <3>3. QED BY <3>1, <3>2, MarksConstants
  <2>2. PICK next : next = [generating[g] EXCEPT !.pc = "put", !.row = found, !.subject = sub]
        OBVIOUS
  <2>3. next \in GenerationRows
        BY <1>2, <2>2 DEF GenerationRows
  <2>4. result' = result
        BY <1>10 DEF FindLegacy
  <2>5. QED BY <1>3, <2>1, <2>2, <2>3, <2>4
<1>11. QED BY <1>1, <1>4, <1>5, <1>6, <1>7, <1>8, <1>9, <1>10

LEMMA RewriteKeepsRows ==
    ASSUME LegacyTypes, NEW id, NEW total \in Nat, NEW status \in LegacyStatuses
    PROVE  Rewrite(id, total, status) \subseteq LegacyRows
BY DEF Rewrite, LegacyTypes, LegacyRows

LEMMA PutTypes ==
    ASSUME ResultTypes, LegacyTypes, NEW g \in Generators, PutLegacy(g)
    PROVE  LegacyTypes'
<1>1. PICK at \in GenerationRows : at = generating[g]
      BY DEF ResultTypes
<1>2. at.subject \in Subjects /\ at.records[at.subject] \in Nat
      BY DEF GenerationRows, Records
<1>3. [id |-> <<g, at.subject>>, subject |-> at.subject, total |-> at.records[at.subject],
       status |-> "submitted"] \in LegacyRows
      BY <1>2 DEF LegacyRows, LegacyStatuses
<1>4. Rewrite(at.row, at.records[at.subject], "submitted") \subseteq LegacyRows
      BY <1>2, RewriteKeepsRows DEF LegacyStatuses
<1>5. legacy' \subseteq LegacyRows /\ UNCHANGED hand
      BY <1>1, <1>3, <1>4 DEF PutLegacy, LegacyTypes
<1>6. QED BY <1>5 DEF LegacyTypes

LEMMA LegacyTypesStep ==
    ASSUME LegacyTypes, EditByHand
    PROVE  LegacyTypes'
<1>1. PICK k \in Hands :
       \/ CommitHand(k) \/ ApproveBatch(k)
       \/ \E row \in legacy : BeginApprove(k, row) \/ DeleteResult(k, row)
       \/ \E row \in legacy, total \in Scores \cup {0}, status \in {"draft", "submitted", "unset"} :
             BeginUpdate(k, row, total, status)
       \/ \E sub \in Subjects, total \in Scores, status \in {"draft", "submitted"} :
             InsertByHand(k, sub, total, status)
      BY DEF EditByHand
<1>2. hand[k] \in HandRows
      BY DEF LegacyTypes
<1>3. CASE CommitHand(k)
  <2>1. hand' \in [Hands -> HandRows]
        BY <1>3, MarksConstants DEF CommitHand, LegacyTypes
  <2>2. Rewrite(hand[k].row, hand[k].total, hand[k].status) \subseteq LegacyRows
        BY <1>2, RewriteKeepsRows DEF HandRows
  <2>3. {[row EXCEPT !.status = IF row.id = hand[k].row THEN "approved" ELSE @] : row \in legacy}
           \subseteq LegacyRows
        BY DEF LegacyTypes, LegacyRows, LegacyStatuses
  <2>4. QED BY <1>3, <2>1, <2>2, <2>3 DEF CommitHand, LegacyTypes
<1>4. CASE ApproveBatch(k)
      BY <1>4 DEF ApproveBatch, LegacyTypes, LegacyRows, LegacyStatuses
<1>5. ASSUME NEW read \in legacy, BeginApprove(k, read) \/ DeleteResult(k, read) PROVE LegacyTypes'
  <2>1. read \in LegacyRows /\ read.id \in LegacyIds
        BY <1>5, MarksConstants DEF LegacyTypes, LegacyRows
  <2>2. CASE BeginApprove(k, read)
    <3>1. [op |-> "approve", row |-> read.id, total |-> 0, status |-> "approved"] \in HandRows
          BY <2>1 DEF HandRows, LegacyStatuses
    <3>2. QED BY <2>2, <3>1 DEF BeginApprove, LegacyTypes
  <2>3. CASE DeleteResult(k, read)
        BY <2>3 DEF DeleteResult, LegacyTypes
  <2>4. QED BY <1>5, <2>2, <2>3
<1>6. ASSUME NEW read \in legacy, NEW total \in Scores \cup {0},
             NEW status \in {"draft", "submitted", "unset"}, BeginUpdate(k, read, total, status)
      PROVE  LegacyTypes'
  <2>1. read \in LegacyRows /\ read.id \in LegacyIds /\ total \in Nat
        BY <1>6, MarksConstants DEF LegacyTypes, LegacyRows
  <2>2. PICK sum \in Nat, now \in LegacyStatuses :
           /\ sum = IF total = 0 THEN read.total ELSE total
           /\ now = IF status = "unset" THEN read.status ELSE status
        BY <2>1 DEF LegacyRows, LegacyStatuses
  <2>3. hand' = [hand EXCEPT ![k] = [op |-> "update", row |-> read.id, total |-> sum, status |-> now]]
        BY <1>6, <2>2 DEF BeginUpdate
  <2>4. [op |-> "update", row |-> read.id, total |-> sum, status |-> now] \in HandRows
        BY <2>1, <2>2 DEF HandRows
  <2>5. QED BY <1>6, <2>3, <2>4 DEF BeginUpdate, LegacyTypes
<1>7. ASSUME NEW sub \in Subjects, NEW total \in Scores, NEW status \in {"draft", "submitted"},
             InsertByHand(k, sub, total, status)
      PROVE  LegacyTypes'
  <2>1. [id |-> <<k, sub>>, subject |-> sub, total |-> total, status |-> status] \in LegacyRows
        BY MarksConstants DEF LegacyRows, LegacyStatuses
  <2>2. QED BY <1>7, <2>1 DEF InsertByHand, LegacyTypes
<1>8. QED BY <1>1, <1>3, <1>4, <1>5, <1>6, <1>7

\* Sheets, results, generations and the rows edited by hand keep their types.
LEMMA MarksTypesHold == MarksSpec => []MarksTypeOK
<1>1. MarksInit => MarksInv
  <2>1. SUFFICES ASSUME MarksInit PROVE MarksInv
        OBVIOUS
  <2>2. \A s \in Sheets : ~Live(s)
        BY <2>1 DEF MarksInit, NoSheetRow, Live
  <2>3. LiveSheets = {}
        BY <2>2 DEF LiveSheets
  <2>4. SheetTypes
        BY <2>1, <2>3, FS_EmptySet, MarksConstants DEF MarksInit, SheetTypes
  <2>5. ResultTypes /\ LegacyTypes /\ MarksGhosts
        BY <2>1, MarksConstants DEF MarksInit, ResultTypes, LegacyTypes, MarksGhosts
  <2>6. QED BY <2>4, <2>5 DEF MarksInv
<1>2. MarksInv /\ [MarksNext]_marksVars => MarksInv'
  <2>1. SUFFICES ASSUME SheetTypes, ResultTypes, LegacyTypes, MarksGhosts, [MarksNext]_marksVars
                 PROVE  SheetTypes' /\ ResultTypes' /\ LegacyTypes' /\ MarksGhosts'
        BY DEF MarksInv
  <2>2. ASSUME UNCHANGED <<sheet, editing>> PROVE SheetTypes'
        BY <2>1, <2>2 DEF SheetTypes, LiveSheets, Live
  <2>3. ASSUME UNCHANGED <<result, generating>> PROVE ResultTypes'
        BY <2>1, <2>3 DEF ResultTypes
  <2>4. ASSUME UNCHANGED <<legacy, hand>> PROVE LegacyTypes'
        BY <2>1, <2>4 DEF LegacyTypes
  <2>5. ASSUME UNCHANGED releasing,
               \/ solo' \in Generators \cup {NoGenerator} /\ torn' \in BOOLEAN
               \/ UNCHANGED <<solo, torn>>
        PROVE  MarksGhosts'
        BY <2>1, <2>5 DEF MarksGhosts
  <2>6. CASE UNCHANGED marksVars
        BY <2>2, <2>3, <2>4, <2>5, <2>6 DEF marksVars
  <2>7. CASE EditSheets
    <3>1. UNCHANGED <<result, generating, releasing, legacy, hand, solo, torn>>
          BY <2>7 DEF EditSheets, CommitEdit, InsertSheet, BeginDelete, BeginPublish, BeginSave,
             BeginEdit
    <3>2. QED BY <2>1, <2>3, <2>4, <2>5, <2>7, <3>1, SheetTypesStep
  <2>8. CASE GenerateResult
    <3>1. UNCHANGED <<sheet, editing, releasing, hand>>
          BY <2>8 DEF GenerateResult, PreviewMarks, CheckRelease, WriteResult, PutLegacy,
             EndGeneration, AbandonGeneration, FindLegacy
    <3>2. LegacyTypes'
      <4>1. UNCHANGED legacy \/ \E g \in Generators : PutLegacy(g)
            BY <2>8 DEF GenerateResult, PreviewMarks, CheckRelease, WriteResult, EndGeneration,
               AbandonGeneration, FindLegacy
      <4>2. QED BY <2>1, <2>4, <3>1, <4>1, PutTypes
    <3>3. \/ solo' \in Generators \cup {NoGenerator} /\ torn' \in BOOLEAN
          \/ UNCHANGED <<solo, torn>>
      <4>1. ASSUME NEW g \in Generators, WriteResult(g)
            PROVE  \/ solo' \in Generators \cup {NoGenerator} /\ torn' \in BOOLEAN
                   \/ UNCHANGED <<solo, torn>>
            BY <4>1 DEF WriteResult
      <4>2. ASSUME NEW g \in Generators, EndGeneration(g)
            PROVE  solo' \in Generators \cup {NoGenerator} /\ torn' \in BOOLEAN
            BY <2>1, <4>2 DEF EndGeneration, MarksGhosts
      <4>3. QED BY <2>8, <4>1, <4>2 DEF GenerateResult, PreviewMarks, CheckRelease, PutLegacy,
               AbandonGeneration, FindLegacy
    <3>4. QED BY <2>1, <2>2, <2>5, <2>8, <3>1, <3>2, <3>3, ResultTypesStep
  <2>9. CASE ReleaseResult
    <3>1. UNCHANGED <<sheet, editing, generating, legacy, hand, solo, torn>>
          BY <2>9 DEF ReleaseResult, BeginRelease, Release
    <3>2. releasing' \subseteq Releasers
          BY <2>1, <2>9 DEF ReleaseResult, BeginRelease, Release, MarksGhosts
    <3>3. ResultTypes'
          BY <2>1, <2>9, <3>1 DEF ReleaseResult, BeginRelease, Release, ResultTypes
    <3>4. QED BY <2>1, <2>2, <2>4, <3>1, <3>2, <3>3 DEF MarksGhosts
  <2>10. CASE EditByHand
    <3>1. UNCHANGED <<sheet, editing, result, generating, releasing>>
          BY <2>10 DEF EditByHand, CommitHand, ApproveBatch, BeginApprove, DeleteResult,
             BeginUpdate, InsertByHand
    <3>2. \/ solo' = NoGenerator /\ torn' = TRUE
          \/ UNCHANGED <<solo, torn>>
          BY <2>10 DEF EditByHand, CommitHand, ApproveBatch, BeginApprove, DeleteResult,
             BeginUpdate, InsertByHand, Disturb
    <3>3. QED BY <2>1, <2>2, <2>3, <2>5, <2>10, <3>1, <3>2, LegacyTypesStep
  <2>11. QED BY <2>1, <2>6, <2>7, <2>8, <2>9, <2>10 DEF MarksNext
<1>3. MarksInv => MarksTypeOK
      BY DEF MarksInv, SheetTypes, ResultTypes, LegacyTypes, LegacyRows, HandRows, MarksGhosts, MarksTypeOK
<1>4. QED BY <1>1, <1>2, <1>3, PTL DEF MarksSpec

-----------------------------------------------------------------------------
(* Sessions and terms: AcademicCalendar.                                   *)

CalendarRow(d) ==
    /\ d \in [sessions : {d.sessions}, current : {d.current}, terms : {d.terms},
              of : {d.of}, currentTerm : {d.currentTerm}]
    /\ DOMAIN d.of = Terms

AtMostOne(S) == \A x, y \in S : x = y
Sound(d) ==
    /\ d.sessions \subseteq Sessions /\ d.current \subseteq d.sessions /\ AtMostOne(d.current)
    /\ d.terms \subseteq Terms /\ d.currentTerm \subseteq d.terms /\ AtMostOne(d.currentTerm)
    /\ \A t \in d.terms : d.of[t] \in d.sessions

\* The session of the current term is the current one.
Leads(d) == d.current = {d.of[t] : t \in d.currentTerm}

\* What a request that nobody gets in the way of has yet to do, on tables like these.
SessionPlan(d, st) ==
    \E s \in Sessions :
       \/ \E x \in {s, NoSession} : \/ st = <<ClearSessions(x), AddSession(s, TRUE)>>
                                    \/ st = <<ClearSessions(x), PutSession(s, TRUE)>>
       \/ \E on \in BOOLEAN : /\ on => d.current \subseteq {s}
                              /\ st = <<AddSession(s, on)>> \/ st = <<PutSession(s, on)>>
       \/ st = <<DropTermsOf(s), DropSession(s)>>
       \/ TermsOf(d, s) = {} /\ st = <<DropSession(s)>>

TermPlan(d, st) ==
    \E t \in Terms :
       \/ st = <<DropTerm(t)>>
       \/ \E s \in d.sessions :
             \/ \E x \in {t, NoTerm} : \/ st = <<ClearTerms(x), AddTerm(t, s, TRUE)>>
                                       \/ st = <<ClearTerms(x), PutTerm(t, s, TRUE)>>
             \/ \E on \in BOOLEAN : /\ on => d.currentTerm \subseteq {t}
                                    /\ st = <<AddTerm(t, s, on)>> \/ st = <<PutTerm(t, s, on)>>

LeadPlan(d, st) ==
    \E t \in d.terms :
       LET s == d.of[t] IN
       \/ st = <<ClearTerms(NoTerm), MarkTerm(t), ClearSessions(NoSession), PutSession(s, TRUE)>>
       \/ /\ d.currentTerm = {}
          /\ st = <<MarkTerm(t), ClearSessions(NoSession), PutSession(s, TRUE)>>
       \/ /\ d.currentTerm = {t}
          /\ \/ st = <<ClearSessions(NoSession), PutSession(s, TRUE)>>
             \/ d.current = {} /\ st = <<PutSession(s, TRUE)>>

AddsTerm(x, s, on) == \E t \in Terms : x = AddTerm(t, s, on)
SeedsTerms(d, st, s) ==
    /\ \A i \in 1 .. Len(st) :
          \/ st[i] = Relist \/ AddsTerm(st[i], s, FALSE)
          \/ AddsTerm(st[i], s, TRUE) /\ d.currentTerm = {}
    /\ \A i, j \in 1 .. Len(st) : AddsTerm(st[i], s, TRUE) /\ AddsTerm(st[j], s, TRUE) => i = j
SeedPlan(d, st) ==
  /\ st \in Seq(ToSet(st))
  /\ \E s \in Sessions :
       \/ s \in d.sessions /\ SeedsTerms(d, st, s)
       \/ /\ d.sessions = {} /\ Len(st) > 1 /\ Head(st) = AddSession(s, TRUE)
          /\ SeedsTerms(d, Tail(st), s)

Plan(d, st, what) ==
    \/ st = <<>>
    \/ what = "session" /\ SessionPlan(d, st)
    \/ what = "term" /\ TermPlan(d, st)
    \/ what = "lead" /\ LeadPlan(d, st)
    \/ what = "seed" /\ SeedPlan(d, st)

CalendarInv ==
    calm =>
       /\ CalendarRow(calendar) /\ Sound(calendar)
       /\ DOMAIN todo = Planners /\ DOMAIN kind = Planners
       /\ \A r \in Planners : Plan(calendar, todo[r], kind[r])
       /\ \A q, r \in Planners : todo[q] # <<>> /\ todo[r] # <<>> => q = r
       /\ listedEmpty /\ calendar.sessions # {} =>
             \E r \in Planners : todo[r] # <<>> /\ kind[r] = "seed"
       /\ led => Leads(calendar)

\* What each statement makes of the tables.
LEMMA RunClearSessions ==
    ASSUME NEW d, CalendarRow(d), NEW x, NEW e, e = Run(d, ClearSessions(x))
    PROVE  /\ CalendarRow(e) /\ e.sessions = d.sessions /\ e.current = d.current \cap {x}
           /\ e.terms = d.terms /\ e.of = d.of /\ e.currentTerm = d.currentTerm
BY DEF CalendarRow, Run, ClearSessions

LEMMA RunClearTerms ==
    ASSUME NEW d, CalendarRow(d), NEW x, NEW e, e = Run(d, ClearTerms(x))
    PROVE  /\ CalendarRow(e) /\ e.sessions = d.sessions /\ e.current = d.current
           /\ e.terms = d.terms /\ e.of = d.of /\ e.currentTerm = d.currentTerm \cap {x}
BY DEF CalendarRow, Run, ClearTerms

LEMMA RunAddSession ==
    ASSUME NEW d, CalendarRow(d), NEW s, NEW on \in BOOLEAN, NEW e, e = Run(d, AddSession(s, on))
    PROVE  /\ CalendarRow(e) /\ e.sessions = d.sessions \cup {s}
           /\ (on => e.current = d.current \cup {s}) /\ (~on => e.current = d.current \ {s})
           /\ e.terms = d.terms /\ e.of = d.of /\ e.currentTerm = d.currentTerm
BY DEF CalendarRow, Run, AddSession, Toggle

LEMMA RunPutSession ==
    ASSUME NEW d, CalendarRow(d), NEW s, NEW on \in BOOLEAN, NEW e, e = Run(d, PutSession(s, on))
    PROVE  /\ CalendarRow(e) /\ e.sessions = d.sessions
           /\ s \notin d.sessions => e.current = d.current
           /\ s \in d.sessions => /\ on => e.current = d.current \cup {s}
                                  /\ ~on => e.current = d.current \ {s}
           /\ e.terms = d.terms /\ e.of = d.of /\ e.currentTerm = d.currentTerm
<1>1. CASE s \in d.sessions
      BY <1>1 DEF CalendarRow, Run, PutSession, Toggle
<1>2. CASE s \notin d.sessions
      BY <1>2 DEF CalendarRow, Run, PutSession
<1>3. QED BY <1>1, <1>2

LEMMA RunAddTerm ==
    ASSUME NEW d, CalendarRow(d), NEW t \in Terms, NEW s, NEW on \in BOOLEAN, NEW e,
           e = Run(d, AddTerm(t, s, on))
    PROVE  /\ CalendarRow(e) /\ e.sessions = d.sessions /\ e.current = d.current
           /\ e.terms = d.terms \cup {t} /\ e.of[t] = s
           /\ \A u \in Terms : u # t => e.of[u] = d.of[u]
           /\ (on => e.currentTerm = d.currentTerm \cup {t})
           /\ (~on => e.currentTerm = d.currentTerm \ {t})
BY DEF CalendarRow, Run, AddTerm, Toggle

LEMMA RunPutTerm ==
    ASSUME NEW d, CalendarRow(d), NEW t \in Terms, NEW s, NEW on \in BOOLEAN, NEW e,
           e = Run(d, PutTerm(t, s, on))
    PROVE  /\ CalendarRow(e) /\ e.sessions = d.sessions /\ e.current = d.current
           /\ e.terms = d.terms
           /\ t \in d.terms => e.of[t] = s
           /\ \A u \in Terms : u # t => e.of[u] = d.of[u]
           /\ t \notin d.terms => e.currentTerm = d.currentTerm
           /\ t \in d.terms => /\ on => e.currentTerm = d.currentTerm \cup {t}
                               /\ ~on => e.currentTerm = d.currentTerm \ {t}
<1>1. CASE t \in d.terms
  <2>1. e = [d EXCEPT !.terms = @ \cup {t}, !.of[t] = s,
                      !.currentTerm = IF on THEN @ \cup {t} ELSE @ \ {t}]
        BY <1>1 DEF Run, PutTerm, Toggle
  <2>2. d.terms \cup {t} = d.terms
        BY <1>1
  <2>3. QED BY <1>1, <2>1, <2>2 DEF CalendarRow
<1>2. CASE t \notin d.terms
      BY <1>2 DEF CalendarRow, Run, PutTerm
<1>3. QED BY <1>1, <1>2

LEMMA RunMarkTerm ==
    ASSUME NEW d, CalendarRow(d), NEW t, NEW e, e = Run(d, MarkTerm(t))
    PROVE  /\ CalendarRow(e) /\ e.sessions = d.sessions /\ e.current = d.current
           /\ e.terms = d.terms /\ e.of = d.of
           /\ e.currentTerm = d.currentTerm \cup ({t} \cap d.terms)
BY DEF CalendarRow, Run, MarkTerm, MarkedTerm

LEMMA RunDropTerm ==
    ASSUME NEW d, CalendarRow(d), NEW t, NEW e, e = Run(d, DropTerm(t))
    PROVE  /\ CalendarRow(e) /\ e.sessions = d.sessions /\ e.current = d.current
           /\ e.terms = d.terms \ {t} /\ e.of = d.of /\ e.currentTerm = d.currentTerm \ {t}
BY DEF CalendarRow, Run, DropTerm

LEMMA RunDropTermsOf ==
    ASSUME NEW d, CalendarRow(d), NEW s, NEW e, e = Run(d, DropTermsOf(s))
    PROVE  /\ CalendarRow(e) /\ e.sessions = d.sessions /\ e.current = d.current
           /\ e.terms = d.terms \ TermsOf(d, s) /\ e.of = d.of
           /\ e.currentTerm = d.currentTerm \ TermsOf(d, s)
BY DEF CalendarRow, Run, DropTermsOf

LEMMA RunDropSession ==
    ASSUME NEW d, CalendarRow(d), NEW s, NEW e, e = Run(d, DropSession(s))
    PROVE  /\ CalendarRow(e) /\ e.sessions = d.sessions \ {s} /\ e.current = d.current \ {s}
           /\ e.terms = d.terms /\ e.of = d.of /\ e.currentTerm = d.currentTerm
BY DEF CalendarRow, Run, DropSession

LEMMA RunRelist ==
    ASSUME NEW d
    PROVE  Run(d, Relist) = d
BY DEF Run, Relist

LEMMA OneStatement ==
    ASSUME NEW a
    PROVE  Head(<<a>>) = a /\ Tail(<<a>>) = <<>> /\ Len(<<a>>) = 1
OBVIOUS

LEMMA TwoStatements ==
    ASSUME NEW a, NEW b
    PROVE  Head(<<a, b>>) = a /\ Tail(<<a, b>>) = <<b>> /\ Len(<<a, b>>) # 1
OBVIOUS

LEMMA ThreeStatements ==
    ASSUME NEW a, NEW b, NEW c
    PROVE  Head(<<a, b, c>>) = a /\ Tail(<<a, b, c>>) = <<b, c>> /\ Len(<<a, b, c>>) # 1
OBVIOUS

\* A step of a plan leaves the tables sound and the rest of the plan to do.
LEMMA SessionStep ==
    ASSUME NEW d, CalendarRow(d), Sound(d), NEW st, SessionPlan(d, st),
           NEW e, e = Run(d, Head(st))
    PROVE  /\ CalendarRow(e) /\ Sound(e)
           /\ Tail(st) = <<>> \/ SessionPlan(e, Tail(st))
           /\ Len(st) = 1 \/ e.sessions = d.sessions
<1>1. PICK s \in Sessions :
       \/ \E x \in {s, NoSession} : \/ st = <<ClearSessions(x), AddSession(s, TRUE)>>
                                    \/ st = <<ClearSessions(x), PutSession(s, TRUE)>>
       \/ \E on \in BOOLEAN : /\ on => d.current \subseteq {s}
                              /\ st = <<AddSession(s, on)>> \/ st = <<PutSession(s, on)>>
       \/ st = <<DropTermsOf(s), DropSession(s)>>
       \/ TermsOf(d, s) = {} /\ st = <<DropSession(s)>>
      BY DEF SessionPlan
<1>2. ASSUME NEW x \in {s, NoSession}, NEW last, st = <<ClearSessions(x), last>>,
             last = AddSession(s, TRUE) \/ last = PutSession(s, TRUE)
      PROVE  /\ CalendarRow(e) /\ Sound(e) /\ e.sessions = d.sessions
             /\ SessionPlan(e, Tail(st))
  <2>1. Head(st) = ClearSessions(x) /\ Tail(st) = <<last>>
        BY <1>2
  <2>2. /\ CalendarRow(e) /\ e.sessions = d.sessions /\ e.current = d.current \cap {x}
        /\ e.terms = d.terms /\ e.of = d.of /\ e.currentTerm = d.currentTerm
        BY <2>1, RunClearSessions
  <2>3. Sound(e)
        BY <2>2 DEF Sound, AtMostOne
  <2>4. e.current \subseteq {s}
        BY <1>2, <2>2, CalendarAssumption DEF Sound
  <2>5. QED BY <1>2, <2>1, <2>2, <2>3, <2>4 DEF SessionPlan
<1>3. ASSUME NEW on \in BOOLEAN, on => d.current \subseteq {s},
             st = <<AddSession(s, on)>> \/ st = <<PutSession(s, on)>>
      PROVE  CalendarRow(e) /\ Sound(e) /\ Tail(st) = <<>> /\ Len(st) = 1
  <2>1. CASE st = <<AddSession(s, on)>>
    <3>1. e = Run(d, AddSession(s, on)) /\ Tail(st) = <<>> /\ Len(st) = 1
          BY <2>1
    <3>2. /\ CalendarRow(e) /\ e.sessions = d.sessions \cup {s}
          /\ (on => e.current = d.current \cup {s}) /\ (~on => e.current = d.current \ {s})
          /\ e.terms = d.terms /\ e.of = d.of /\ e.currentTerm = d.currentTerm
          BY <3>1, RunAddSession
    <3>3. QED BY <1>3, <2>1, <3>1, <3>2 DEF Sound, AtMostOne
  <2>2. CASE st = <<PutSession(s, on)>>
    <3>1. e = Run(d, PutSession(s, on)) /\ Tail(st) = <<>> /\ Len(st) = 1
          BY <2>2
    <3>2. /\ CalendarRow(e) /\ e.sessions = d.sessions
          /\ s \notin d.sessions => e.current = d.current
          /\ s \in d.sessions => /\ on => e.current = d.current \cup {s}
                                 /\ ~on => e.current = d.current \ {s}
          /\ e.terms = d.terms /\ e.of = d.of /\ e.currentTerm = d.currentTerm
          BY <3>1, RunPutSession
    <3>3. QED BY <1>3, <2>2, <3>1, <3>2 DEF Sound, AtMostOne
  <2>3. QED BY <1>3, <2>1, <2>2
<1>4. ASSUME st = <<DropTermsOf(s), DropSession(s)>>
      PROVE  /\ CalendarRow(e) /\ Sound(e) /\ e.sessions = d.sessions
             /\ SessionPlan(e, Tail(st))
  <2>1. Head(st) = DropTermsOf(s) /\ Tail(st) = <<DropSession(s)>>
        BY <1>4
  <2>2. /\ CalendarRow(e) /\ e.sessions = d.sessions /\ e.current = d.current
        /\ e.terms = d.terms \ TermsOf(d, s) /\ e.of = d.of
        /\ e.currentTerm = d.currentTerm \ TermsOf(d, s)
        BY <2>1, RunDropTermsOf
  <2>3. Sound(e)
        BY <2>2 DEF Sound, AtMostOne
  <2>4. TermsOf(e, s) = {}
        BY <2>2 DEF TermsOf
  <2>5. QED BY <2>1, <2>2, <2>3, <2>4 DEF SessionPlan
<1>5. ASSUME TermsOf(d, s) = {}, st = <<DropSession(s)>>
      PROVE  CalendarRow(e) /\ Sound(e) /\ Tail(st) = <<>> /\ Len(st) = 1
  <2>1. /\ CalendarRow(e) /\ e.sessions = d.sessions \ {s} /\ e.current = d.current \ {s}
        /\ e.terms = d.terms /\ e.of = d.of /\ e.currentTerm = d.currentTerm
        BY <1>5, RunDropSession
  <2>2. Sound(e)
        BY <1>5, <2>1 DEF Sound, AtMostOne, TermsOf
  <2>3. QED BY <1>5, <2>1, <2>2
<1>6. QED BY <1>1, <1>2, <1>3, <1>4, <1>5

LEMMA TermStep ==
    ASSUME NEW d, CalendarRow(d), Sound(d), NEW st, TermPlan(d, st),
           NEW e, e = Run(d, Head(st))
    PROVE  /\ CalendarRow(e) /\ Sound(e) /\ e.sessions = d.sessions
           /\ Tail(st) = <<>> \/ TermPlan(e, Tail(st))
<1>1. PICK t \in Terms :
       \/ st = <<DropTerm(t)>>
       \/ \E s \in d.sessions :
             \/ \E x \in {t, NoTerm} : \/ st = <<ClearTerms(x), AddTerm(t, s, TRUE)>>
                                       \/ st = <<ClearTerms(x), PutTerm(t, s, TRUE)>>
             \/ \E on \in BOOLEAN : /\ on => d.currentTerm \subseteq {t}
                                    /\ st = <<AddTerm(t, s, on)>> \/ st = <<PutTerm(t, s, on)>>
      BY DEF TermPlan
<1>2. CASE st = <<DropTerm(t)>>
  <2>1. /\ CalendarRow(e) /\ e.sessions = d.sessions /\ e.current = d.current
        /\ e.terms = d.terms \ {t} /\ e.of = d.of /\ e.currentTerm = d.currentTerm \ {t}
        BY <1>2, RunDropTerm
  <2>2. Sound(e)
        BY <2>1 DEF Sound, AtMostOne
  <2>3. QED BY <1>2, <2>1, <2>2
<1>3. ASSUME NEW s \in d.sessions, NEW x \in {t, NoTerm}, NEW last, st = <<ClearTerms(x), last>>,
             last = AddTerm(t, s, TRUE) \/ last = PutTerm(t, s, TRUE)
      PROVE  /\ CalendarRow(e) /\ Sound(e) /\ e.sessions = d.sessions
             /\ TermPlan(e, Tail(st))
  <2>1. Head(st) = ClearTerms(x) /\ Tail(st) = <<last>>
        BY <1>3
  <2>2. /\ CalendarRow(e) /\ e.sessions = d.sessions /\ e.current = d.current
        /\ e.terms = d.terms /\ e.of = d.of /\ e.currentTerm = d.currentTerm \cap {x}
        BY <2>1, RunClearTerms
  <2>3. Sound(e)
        BY <2>2 DEF Sound, AtMostOne
  <2>4. e.currentTerm \subseteq {t}
        BY <1>3, <2>2, CalendarAssumption DEF Sound
  <2>5. QED BY <1>3, <2>1, <2>2, <2>3, <2>4 DEF TermPlan
<1>4. ASSUME NEW s \in d.sessions, NEW on \in BOOLEAN, on => d.currentTerm \subseteq {t},
             st = <<AddTerm(t, s, on)>> \/ st = <<PutTerm(t, s, on)>>
      PROVE  CalendarRow(e) /\ Sound(e) /\ e.sessions = d.sessions /\ Tail(st) = <<>>
  <2>1. CASE st = <<AddTerm(t, s, on)>>
    <3>1. e = Run(d, AddTerm(t, s, on)) /\ Tail(st) = <<>> /\ Len(st) = 1
          BY <2>1
    <3>2. /\ CalendarRow(e) /\ e.sessions = d.sessions /\ e.current = d.current
          /\ e.terms = d.terms \cup {t} /\ e.of[t] = s
          /\ \A u \in Terms : u # t => e.of[u] = d.of[u]
          /\ (on => e.currentTerm = d.currentTerm \cup {t})
          /\ (~on => e.currentTerm = d.currentTerm \ {t})
          BY <3>1, RunAddTerm
    <3>3. QED BY <1>4, <2>1, <3>1, <3>2 DEF Sound, AtMostOne
  <2>2. CASE st = <<PutTerm(t, s, on)>>
    <3>1. e = Run(d, PutTerm(t, s, on)) /\ Tail(st) = <<>> /\ Len(st) = 1
          BY <2>2
    <3>2. /\ CalendarRow(e) /\ e.sessions = d.sessions /\ e.current = d.current
          /\ e.terms = d.terms
          /\ t \in d.terms => e.of[t] = s
          /\ \A u \in Terms : u # t => e.of[u] = d.of[u]
          /\ t \notin d.terms => e.currentTerm = d.currentTerm
          /\ t \in d.terms => /\ on => e.currentTerm = d.currentTerm \cup {t}
                              /\ ~on => e.currentTerm = d.currentTerm \ {t}
          BY <3>1, RunPutTerm
    <3>3. QED BY <1>4, <2>2, <3>1, <3>2 DEF Sound, AtMostOne
  <2>3. QED BY <1>4, <2>1, <2>2
<1>5. QED BY <1>1, <1>2, <1>3, <1>4

LEMMA LeadStep ==
    ASSUME NEW d, CalendarRow(d), Sound(d), NEW st, LeadPlan(d, st),
           NEW e, e = Run(d, Head(st))
    PROVE  /\ CalendarRow(e) /\ Sound(e) /\ e.sessions = d.sessions
           /\ Tail(st) = <<>> \/ LeadPlan(e, Tail(st))
           /\ Len(st) = 1 => Leads(e)
<1>1. PICK t \in d.terms :
       LET s == d.of[t] IN
       \/ st = <<ClearTerms(NoTerm), MarkTerm(t), ClearSessions(NoSession), PutSession(s, TRUE)>>
       \/ /\ d.currentTerm = {}
          /\ st = <<MarkTerm(t), ClearSessions(NoSession), PutSession(s, TRUE)>>
       \/ /\ d.currentTerm = {t}
          /\ \/ st = <<ClearSessions(NoSession), PutSession(s, TRUE)>>
             \/ d.current = {} /\ st = <<PutSession(s, TRUE)>>
      BY DEF LeadPlan
<1>2. PICK s : s = d.of[t]
      OBVIOUS
<1>3. s \in d.sessions /\ NoSession \notin d.current /\ NoTerm \notin d.currentTerm
      BY <1>2, CalendarAssumption DEF Sound
<1>4. ASSUME st = <<ClearTerms(NoTerm), MarkTerm(t), ClearSessions(NoSession), PutSession(s, TRUE)>>
      PROVE  /\ CalendarRow(e) /\ Sound(e) /\ e.sessions = d.sessions
             /\ LeadPlan(e, Tail(st)) /\ Len(st) # 1
  <2>1. PICK last : last = PutSession(s, TRUE)
        OBVIOUS
  <2>2. st = <<ClearTerms(NoTerm), MarkTerm(t), ClearSessions(NoSession), last>>
        BY <1>4, <2>1
  <2>3. /\ Head(st) = ClearTerms(NoTerm) /\ Len(st) # 1
        /\ Tail(st) = <<MarkTerm(t), ClearSessions(NoSession), last>>
        BY <2>2
  <2>4. /\ Head(st) = ClearTerms(NoTerm) /\ Len(st) # 1
        /\ Tail(st) = <<MarkTerm(t), ClearSessions(NoSession), PutSession(s, TRUE)>>
        BY <2>1, <2>3
  <2>5. /\ CalendarRow(e) /\ e.sessions = d.sessions /\ e.current = d.current
        /\ e.terms = d.terms /\ e.of = d.of /\ e.currentTerm = {}
        BY <1>3, <2>4, RunClearTerms
  <2>6. QED BY <1>2, <2>4, <2>5 DEF Sound, AtMostOne, LeadPlan
<1>5. ASSUME d.currentTerm = {},
             st = <<MarkTerm(t), ClearSessions(NoSession), PutSession(s, TRUE)>>
      PROVE  /\ CalendarRow(e) /\ Sound(e) /\ e.sessions = d.sessions
             /\ LeadPlan(e, Tail(st)) /\ Len(st) # 1
  <2>1. /\ Head(st) = MarkTerm(t) /\ Len(st) # 1
        /\ Tail(st) = <<ClearSessions(NoSession), PutSession(s, TRUE)>>
        BY <1>5, ThreeStatements
  <2>2. /\ CalendarRow(e) /\ e.sessions = d.sessions /\ e.current = d.current
        /\ e.terms = d.terms /\ e.of = d.of /\ e.currentTerm = {t}
        BY <1>5, <2>1, RunMarkTerm
  <2>3. QED BY <1>2, <2>1, <2>2 DEF Sound, AtMostOne, LeadPlan
<1>6. ASSUME d.currentTerm = {t}, st = <<ClearSessions(NoSession), PutSession(s, TRUE)>>
      PROVE  /\ CalendarRow(e) /\ Sound(e) /\ e.sessions = d.sessions
             /\ LeadPlan(e, Tail(st)) /\ Len(st) # 1
  <2>1. /\ Head(st) = ClearSessions(NoSession) /\ Len(st) # 1
        /\ Tail(st) = <<PutSession(s, TRUE)>>
        BY <1>6, TwoStatements
  <2>2. /\ CalendarRow(e) /\ e.sessions = d.sessions /\ e.current = {}
        /\ e.terms = d.terms /\ e.of = d.of /\ e.currentTerm = d.currentTerm
        BY <1>3, <2>1, RunClearSessions
  <2>3. QED BY <1>2, <1>6, <2>1, <2>2 DEF Sound, AtMostOne, LeadPlan
<1>7. ASSUME d.currentTerm = {t}, d.current = {}, st = <<PutSession(s, TRUE)>>
      PROVE  /\ CalendarRow(e) /\ Sound(e) /\ e.sessions = d.sessions
             /\ Tail(st) = <<>> /\ Leads(e)
  <2>1. PICK on \in BOOLEAN : on /\ st = <<PutSession(s, on)>>
        BY <1>7
  <2>2. Head(st) = PutSession(s, on) /\ Tail(st) = <<>>
        BY <2>1, OneStatement
  <2>3. /\ CalendarRow(e) /\ e.sessions = d.sessions
        /\ s \notin d.sessions => e.current = d.current
        /\ s \in d.sessions /\ on => e.current = d.current \cup {s}
        /\ e.terms = d.terms /\ e.of = d.of /\ e.currentTerm = d.currentTerm
        BY <2>2, RunPutSession
  <2>4. e.current = {s}
        BY <2>1, <1>3, <1>7, <2>3
  <2>5. Sound(e)
        BY <1>3, <2>3, <2>4 DEF Sound, AtMostOne
  <2>6. e.currentTerm = {t} /\ e.of[t] = s
        BY <1>2, <1>7, <2>3
  <2>7. {e.of[u] : u \in e.currentTerm} = {s}
        BY <2>6
  <2>8. QED BY <2>2, <2>3, <2>4, <2>5, <2>7 DEF Leads
<1>8. QED BY <1>2, <1>1, <1>4, <1>5, <1>6, <1>7

LEMMA OwnElements ==
    ASSUME NEW S, NEW st \in Seq(S)
    PROVE  st \in Seq(ToSet(st))
<1>1. st \in [1 .. Len(st) -> ToSet(st)] /\ Len(st) \in Nat
      BY DEF ToSet
<1>2. QED BY <1>1, SeqDef

LEMMA SeedStep ==
    ASSUME NEW d, CalendarRow(d), Sound(d), NEW st, st # <<>>, SeedPlan(d, st),
           NEW e, e = Run(d, Head(st))
    PROVE  /\ CalendarRow(e) /\ Sound(e)
           /\ SeedPlan(e, Tail(st))
           /\ Len(st) = 1 => d.sessions # {} /\ e.sessions = d.sessions
<1>1. PICK S : st \in Seq(S)
      BY DEF SeedPlan
<1>2. /\ Len(st) \in Nat \ {0} /\ Len(Tail(st)) = Len(st) - 1 /\ Head(st) = st[1]
      /\ \A i \in 1 .. Len(Tail(st)) : Tail(st)[i] = st[i + 1]
      BY <1>1, HeadTailProperties
<1>3. Tail(st) \in Seq(ToSet(Tail(st)))
      BY <1>1, HeadTailProperties, OwnElements
<1>4. PICK s \in Sessions :
       \/ s \in d.sessions /\ SeedsTerms(d, st, s)
       \/ /\ d.sessions = {} /\ Len(st) > 1 /\ Head(st) = AddSession(s, TRUE)
          /\ SeedsTerms(d, Tail(st), s)
      BY DEF SeedPlan
<1>5. CASE /\ d.sessions = {} /\ Len(st) > 1 /\ Head(st) = AddSession(s, TRUE)
           /\ SeedsTerms(d, Tail(st), s)
  <2>1. PICK on \in BOOLEAN : on /\ Head(st) = AddSession(s, on)
        BY <1>5
  <2>2. e = Run(d, AddSession(s, on))
        BY <2>1
  <2>3. /\ CalendarRow(e) /\ e.sessions = d.sessions \cup {s}
        /\ (on => e.current = d.current \cup {s}) /\ (~on => e.current = d.current \ {s})
        /\ e.terms = d.terms /\ e.of = d.of /\ e.currentTerm = d.currentTerm
        BY <2>2, RunAddSession
  <2>4. Sound(e)
        BY <1>5, <2>1, <2>3 DEF Sound, AtMostOne
  <2>5. SeedsTerms(e, Tail(st), s)
        BY <1>5, <2>3 DEF SeedsTerms
  <2>6. SeedPlan(e, Tail(st))
        BY <1>3, <2>3, <2>5 DEF SeedPlan
  <2>7. Len(st) # 1
        BY <1>2, <1>5
  <2>8. QED BY <2>3, <2>4, <2>6, <2>7
<1>6. CASE s \in d.sessions /\ SeedsTerms(d, st, s)
  <2>1. \A i \in 1 .. Len(Tail(st)) : i \in 1 .. Len(st) /\ i + 1 \in 1 .. Len(st)
        BY <1>2
  <2>2. 1 \in 1 .. Len(st)
        BY <1>2
  <2>3. ASSUME NEW i \in 1 .. Len(Tail(st)), NEW j \in 1 .. Len(Tail(st)),
               AddsTerm(Tail(st)[i], s, TRUE), AddsTerm(Tail(st)[j], s, TRUE)
        PROVE  i = j
    <3>1. Tail(st)[i] = st[i + 1] /\ Tail(st)[j] = st[j + 1]
          BY <1>2
    <3>2. i + 1 = j + 1
          BY <1>6, <2>1, <2>3, <3>1 DEF SeedsTerms
    <3>3. QED BY <1>2, <3>2
  <2>4. CASE Head(st) = Relist
    <3>1. e = d
          BY <2>4, RunRelist
    <3>2. SeedsTerms(d, Tail(st), s)
      <4>1. ASSUME NEW i \in 1 .. Len(Tail(st))
            PROVE  \/ Tail(st)[i] = Relist \/ AddsTerm(Tail(st)[i], s, FALSE)
                   \/ AddsTerm(Tail(st)[i], s, TRUE) /\ d.currentTerm = {}
        <5>1. \/ st[i + 1] = Relist \/ AddsTerm(st[i + 1], s, FALSE)
              \/ AddsTerm(st[i + 1], s, TRUE) /\ d.currentTerm = {}
              BY <1>6, <2>1 DEF SeedsTerms
        <5>2. Tail(st)[i] = st[i + 1]
              BY <1>2
        <5>3. QED BY <5>1, <5>2
      <4>2. QED BY <2>3, <4>1 DEF SeedsTerms
    <3>3. QED BY <1>6, <1>3, <3>1, <3>2 DEF SeedPlan
  <2>5. ASSUME NEW t \in Terms, NEW on \in BOOLEAN, Head(st) = AddTerm(t, s, on),
               on => d.currentTerm = {}
        PROVE  /\ CalendarRow(e) /\ Sound(e) /\ SeedPlan(e, Tail(st))
               /\ e.sessions = d.sessions
    <3>1. e = Run(d, AddTerm(t, s, on))
          BY <2>5
    <3>2. /\ CalendarRow(e) /\ e.sessions = d.sessions /\ e.current = d.current
          /\ e.terms = d.terms \cup {t} /\ e.of[t] = s
          /\ \A u \in Terms : u # t => e.of[u] = d.of[u]
          /\ (on => e.currentTerm = d.currentTerm \cup {t})
          /\ (~on => e.currentTerm = d.currentTerm \ {t})
          BY <3>1, RunAddTerm
    <3>3. Sound(e)
          BY <1>6, <2>5, <3>2 DEF Sound, AtMostOne
    <3>4. \A i, j \in 1 .. Len(Tail(st)) :
             AddsTerm(Tail(st)[i], s, TRUE) /\ AddsTerm(Tail(st)[j], s, TRUE) => i = j
          BY <2>3
    <3>5. ASSUME NEW i \in 1 .. Len(Tail(st)), AddsTerm(Tail(st)[i], s, TRUE)
          PROVE  e.currentTerm = {}
      <4>1. i + 1 # 1 /\ Tail(st)[i] = st[i + 1]
            BY <1>2
      <4>2. AddsTerm(st[i + 1], s, TRUE) /\ i + 1 # 1
            BY <3>5, <4>1
      <4>3. ~AddsTerm(st[1], s, TRUE)
            BY <1>6, <2>1, <2>2, <4>2 DEF SeedsTerms
      <4>4. ~on
            BY <1>2, <2>5, <4>3 DEF AddsTerm
      <4>5. d.currentTerm = {}
            BY <1>2, <1>6, <2>1, <3>5, <4>2 DEF SeedsTerms, AddsTerm, AddTerm, Relist
      <4>6. QED BY <3>2, <4>4, <4>5
    <3>6. SeedsTerms(e, Tail(st), s)
      <4>1. ASSUME NEW i \in 1 .. Len(Tail(st))
            PROVE  \/ Tail(st)[i] = Relist \/ AddsTerm(Tail(st)[i], s, FALSE)
                   \/ AddsTerm(Tail(st)[i], s, TRUE) /\ e.currentTerm = {}
        <5>1. \/ st[i + 1] = Relist \/ AddsTerm(st[i + 1], s, FALSE)
              \/ AddsTerm(st[i + 1], s, TRUE)
              BY <1>6, <2>1 DEF SeedsTerms
        <5>2. Tail(st)[i] = st[i + 1]
              BY <1>2
        <5>3. QED BY <3>5, <5>1, <5>2
      <4>2. QED BY <3>4, <4>1 DEF SeedsTerms
    <3>7. QED BY <1>6, <1>3, <3>2, <3>3, <3>6 DEF SeedPlan
  <2>6. \/ st[1] = Relist \/ AddsTerm(st[1], s, FALSE)
        \/ AddsTerm(st[1], s, TRUE) /\ d.currentTerm = {}
        BY <1>6, <2>2 DEF SeedsTerms
  <2>7. CASE AddsTerm(st[1], s, FALSE)
    <3>1. PICK t \in Terms, on \in BOOLEAN : ~on /\ Head(st) = AddTerm(t, s, on)
          BY <1>2, <2>7 DEF AddsTerm
    <3>2. QED BY <1>6, <2>5, <3>1
  <2>8. CASE AddsTerm(st[1], s, TRUE) /\ d.currentTerm = {}
    <3>1. PICK t \in Terms, on \in BOOLEAN : Head(st) = AddTerm(t, s, on)
          BY <1>2, <2>8 DEF AddsTerm
    <3>2. QED BY <1>6, <2>5, <2>8, <3>1
  <2>9. d.sessions # {}
        BY <1>6
  <2>10. QED BY <1>2, <1>6, <2>4, <2>6, <2>7, <2>8, <2>9
<1>7. QED BY <1>4, <1>5, <1>6

LEMMA PlanStep ==
    ASSUME NEW d, CalendarRow(d), Sound(d), NEW st, NEW what, Plan(d, st, what), st # <<>>,
           NEW e, e = Run(d, Head(st))
    PROVE  /\ CalendarRow(e) /\ Sound(e) /\ Plan(e, Tail(st), what)
           /\ e.sessions = d.sessions \/ what = "seed" \/ (what = "session" /\ Len(st) = 1)
           /\ what = "seed" /\ Len(st) = 1 => d.sessions # {} /\ e.sessions = d.sessions
           /\ what = "seed" /\ Len(st) # 1 => Tail(st) # <<>>
           /\ what = "lead" /\ Len(st) = 1 => Leads(e)
<1>1. CASE what = "session"
      BY <1>1, SessionStep DEF Plan
<1>2. CASE what = "term"
      BY <1>2, TermStep DEF Plan
<1>3. CASE what = "lead"
  <2>1. LeadPlan(d, st)
        BY <1>3 DEF Plan
  <2>2. /\ CalendarRow(e) /\ Sound(e) /\ e.sessions = d.sessions
        /\ Tail(st) = <<>> \/ LeadPlan(e, Tail(st))
        /\ Len(st) = 1 => Leads(e)
        BY <2>1, LeadStep
  <2>3. QED BY <1>3, <2>2 DEF Plan
<1>4. CASE what = "seed"
  <2>1. SeedPlan(d, st)
        BY <1>4 DEF Plan
  <2>2. Len(st) # 1 => Tail(st) # <<>>
    <3>1. PICK S : st \in Seq(S)
          BY <2>1 DEF SeedPlan
    <3>2. Len(st) \in Nat \ {0} /\ Len(Tail(st)) = Len(st) - 1
          BY <3>1, HeadTailProperties
    <3>3. Len(<<>>) = 0
          OBVIOUS
    <3>4. Tail(st) = <<>> => Len(Tail(st)) = 0
          BY <3>3
    <3>5. QED BY <3>2, <3>4
  <2>3. QED BY <1>4, <2>1, <2>2, SeedStep DEF Plan
<1>5. QED BY <1>1, <1>2, <1>3, <1>4 DEF Plan

LEMMA StatementInv ==
    ASSUME CalendarInv, NEW r \in Planners, Statement(r)
    PROVE  CalendarInv'
<1> SUFFICES ASSUME calm' PROVE CalendarInv'
    BY DEF CalendarInv
<1>1. PICK st : st = todo[r]
      OBVIOUS
<1>2. PICK what : what = kind[r]
      OBVIOUS
<1>3. /\ calm /\ CalendarRow(calendar) /\ Sound(calendar) /\ st # <<>>
      /\ DOMAIN todo = Planners /\ DOMAIN kind = Planners
      /\ \A q \in Planners : Plan(calendar, todo[q], kind[q])
      /\ \A q \in Planners : q # r => todo[q] = <<>>
      /\ kind' = kind
      BY <1>1 DEF CalendarInv, Statement
<1>4. calendar' = Run(calendar, Head(st)) /\ todo' = [todo EXCEPT ![r] = Tail(st)]
      BY <1>1 DEF Statement
<1>5. /\ DOMAIN todo' = Planners /\ todo'[r] = Tail(st)
      /\ \A q \in Planners : q # r => todo'[q] = <<>>
      BY <1>3, <1>4
<1>6. PICK e : e = calendar'
      OBVIOUS
<1>7. PICK d : d = calendar
      OBVIOUS
<1>8. /\ CalendarRow(e) /\ Sound(e) /\ Plan(e, Tail(st), what)
      /\ e.sessions = d.sessions \/ what = "seed" \/ (what = "session" /\ Len(st) = 1)
      /\ what = "seed" /\ Len(st) = 1 => d.sessions # {} /\ e.sessions = d.sessions
      /\ what = "seed" /\ Len(st) # 1 => Tail(st) # <<>>
      /\ what = "lead" /\ Len(st) = 1 => Leads(e)
  <2>1. /\ CalendarRow(d) /\ Sound(d) /\ Plan(d, st, what) /\ st # <<>>
        /\ e = Run(d, Head(st))
        BY <1>1, <1>2, <1>3, <1>4, <1>6, <1>7
  <2>2. QED BY <2>1, PlanStep
<1>9. \A q \in Planners : Plan(e, todo'[q], kind'[q])
      BY <1>2, <1>3, <1>5, <1>8 DEF Plan
<1>10. \A q, p \in Planners : todo'[q] # <<>> /\ todo'[p] # <<>> => q = p
      BY <1>5
<1>11. ASSUME listedEmpty', e.sessions # {}
       PROVE  \E q \in Planners : todo'[q] # <<>> /\ kind'[q] = "seed"
  <2>1. CASE what = "seed"
    <3>1. Len(st) # 1
          BY <1>1, <1>2, <1>7, <1>8, <1>11, <2>1 DEF Statement, Ends
    <3>2. QED BY <1>2, <1>3, <1>5, <1>8, <2>1, <3>1
  <2>2. CASE what # "seed"
    <3>1. listedEmpty /\ (Len(st) = 1 => what = "term")
          BY <1>1, <1>2, <1>11, <2>2 DEF Statement, Ends
    <3>2. e.sessions = calendar.sessions
          BY <1>7, <1>8, <2>2, <3>1
    <3>3. QED BY <1>2, <1>3, <1>11, <2>2, <3>1, <3>2 DEF CalendarInv
  <2>3. QED BY <2>1, <2>2
<1>12. led' => Leads(e)
      BY <1>1, <1>2, <1>8 DEF Statement, Ends
<1>13. QED BY <1>3, <1>5, <1>6, <1>8, <1>9, <1>10, <1>11, <1>12
           DEF CalendarInv

\* A request that starts by itself plans its statements on the tables it has read.
LEMMA BeginsPlan ==
    ASSUME CalendarInv, NEW r \in Planners, NEW what, NEW st, NEW ids, Begin(r, what, st, ids),
           CalendarRow(calendar) /\ Sound(calendar) => Plan(calendar, st, what)
    PROVE  CalendarInv'
<1> SUFFICES ASSUME calm' PROVE CalendarInv'
    BY DEF CalendarInv
<1>1. /\ calm /\ \A q \in Planners : todo[q] = <<>>
      /\ todo' = [todo EXCEPT ![r] = st] /\ kind' = [kind EXCEPT ![r] = what]
      /\ led' = FALSE /\ calendar' = calendar /\ listedEmpty' = listedEmpty
      BY DEF Begin
<1>2. /\ CalendarRow(calendar) /\ Sound(calendar)
      /\ DOMAIN todo = Planners /\ DOMAIN kind = Planners
      /\ listedEmpty => calendar.sessions = {}
      BY <1>1 DEF CalendarInv
<1>3. /\ DOMAIN todo' = Planners /\ DOMAIN kind' = Planners
      /\ todo'[r] = st /\ kind'[r] = what
      /\ \A q \in Planners : q # r => todo'[q] = <<>>
      BY <1>1, <1>2
<1>4. \A q \in Planners : Plan(calendar, todo'[q], kind'[q])
      BY <1>2, <1>3 DEF Plan
<1>5. \A q, p \in Planners : todo'[q] # <<>> /\ todo'[p] # <<>> => q = p
      BY <1>3
<1>6. QED BY <1>1, <1>2, <1>3, <1>4, <1>5 DEF CalendarInv

LEMMA TwoJoined ==
    ASSUME NEW a, NEW b
    PROVE  <<a>> \o <<b>> = <<a, b>>
<1>1. <<a>> \in Seq({a, b}) /\ <<b>> \in Seq({a, b}) /\ <<a, b>> \in Seq({a, b})
      OBVIOUS
<1>2. /\ <<a>> \o <<b>> \in Seq({a, b}) /\ Len(<<a>> \o <<b>>) = 2
      /\ (<<a>> \o <<b>>)[1] = a /\ (<<a>> \o <<b>>)[2] = b
      BY <1>1, ConcatProperties
<1>3. \A i \in 1 .. 2 : (<<a>> \o <<b>>)[i] = <<a, b>>[i]
      BY <1>2
<1>4. QED BY <1>1, <1>2, <1>3, SeqEqual

LEMMA SessionRequests ==
    ASSUME CalendarInv, NEW r \in Planners, NEW s \in Sessions,
           \/ DeleteSession(r, s) \/ SetCurrentSession(r, s)
           \/ \E current \in BOOLEAN : CreateSession(r, s, current)
           \/ \E asked \in {"unset", "yes", "no"} : UpdateSession(r, s, asked)
    PROVE  CalendarInv'
<1>1. CASE DeleteSession(r, s)
  <2>1. Plan(calendar, <<DropTermsOf(s), DropSession(s)>>, "session")
        BY DEF Plan, SessionPlan
  <2>2. QED BY <1>1, <2>1, BeginsPlan DEF DeleteSession, DeleteSessionStatements
<1>2. CASE SetCurrentSession(r, s)
  <2>1. Plan(calendar, <<ClearSessions(NoSession), PutSession(s, TRUE)>>, "session")
        BY DEF Plan, SessionPlan
  <2>2. QED BY <1>2, <2>1, BeginsPlan DEF SetCurrentSession
<1>3. ASSUME NEW current \in BOOLEAN, CreateSession(r, s, current) PROVE CalendarInv'
  <2>1. CASE current
    <3>1. Plan(calendar, <<ClearSessions(NoSession), AddSession(s, TRUE)>>, "session")
          BY DEF Plan, SessionPlan
    <3>2. QED BY <1>3, <2>1, <3>1, BeginsPlan DEF CreateSession
  <2>2. CASE ~current
    <3>1. Plan(calendar, <<AddSession(s, FALSE)>>, "session")
          BY DEF Plan, SessionPlan
    <3>2. QED BY <1>3, <2>2, <3>1, BeginsPlan DEF CreateSession
  <2>3. QED BY <2>1, <2>2
<1>4. ASSUME NEW asked \in {"unset", "yes", "no"}, UpdateSession(r, s, asked) PROVE CalendarInv'
  <2> DEFINE current == IF asked = "unset" THEN s \in calendar.current ELSE asked = "yes"
             st == (IF current THEN <<ClearSessions(s)>> ELSE <<>>) \o <<PutSession(s, current)>>
  <2>1. Begin(r, "session", st, {})
        BY <1>4 DEF UpdateSession
  <2>2. current \in BOOLEAN
    <3>1. CASE asked = "unset"
          BY <3>1
    <3>2. CASE asked # "unset"
          BY <3>2
    <3>3. QED BY <3>1, <3>2
  <2> HIDE DEF current
  <2>3. PICK last : last = PutSession(s, current)
        OBVIOUS
  <2>4. CASE current
    <3>1. last = PutSession(s, TRUE)
          BY <2>2, <2>3, <2>4 DEF PutSession
    <3>2. st = <<ClearSessions(s)>> \o <<last>>
          BY <2>3, <2>4
    <3>3. st = <<ClearSessions(s), last>>
          BY <3>2, TwoJoined
    <3>4. Plan(calendar, st, "session")
          BY <3>1, <3>3 DEF Plan, SessionPlan
    <3>5. QED BY <2>1, <3>4, BeginsPlan
  <2>5. CASE ~current
    <3>1. last = PutSession(s, FALSE)
          BY <2>2, <2>3, <2>5 DEF PutSession
    <3>2. st = <<>> \o <<last>>
          BY <2>3, <2>5
    <3>3. st = <<last>>
          BY <3>2
    <3>4. Plan(calendar, st, "session")
          BY <3>1, <3>3 DEF Plan, SessionPlan
    <3>5. QED BY <2>1, <3>4, BeginsPlan
  <2>6. QED BY <2>4, <2>5
<1>5. QED BY <1>1, <1>2, <1>3, <1>4

LEMMA TermRequests ==
    ASSUME CalendarInv, NEW r \in Planners, NEW t \in Terms,
           \/ DeleteTerm(r, t) \/ SetCurrentTerm(r, t)
           \/ \E s \in Sessions, current \in BOOLEAN : CreateTerm(r, t, s, current)
           \/ \E s \in Sessions, asked \in {"unset", "yes", "no"} : UpdateTerm(r, t, s, asked)
    PROVE  CalendarInv'
<1>1. CASE DeleteTerm(r, t)
  <2>1. Plan(calendar, <<DropTerm(t)>>, "term")
        BY DEF Plan, TermPlan
  <2>2. QED BY <1>1, <2>1, BeginsPlan DEF DeleteTerm
<1>2. CASE SetCurrentTerm(r, t)
  <2>1. /\ t \in calendar.terms
        /\ Begin(r, "lead", SetCurrentTermStatements(t, calendar.of[t]), {})
        BY <1>2 DEF SetCurrentTerm
  <2>2. Plan(calendar, SetCurrentTermStatements(t, calendar.of[t]), "lead")
        BY <2>1 DEF Plan, LeadPlan, SetCurrentTermStatements
  <2>3. QED BY <2>1, <2>2, BeginsPlan
<1>3. ASSUME NEW s \in Sessions, NEW current \in BOOLEAN, CreateTerm(r, t, s, current)
      PROVE  CalendarInv'
  <2> DEFINE st == (IF current THEN <<ClearTerms(NoTerm)>> ELSE <<>>) \o <<AddTerm(t, s, current)>>
  <2>1. s \in calendar.sessions /\ Begin(r, "term", st, {t})
        BY <1>3 DEF CreateTerm
  <2>2. PICK last : last = AddTerm(t, s, current)
        OBVIOUS
  <2>3. CASE current
    <3>1. last = AddTerm(t, s, TRUE)
          BY <2>2, <2>3 DEF AddTerm
    <3>2. st = <<ClearTerms(NoTerm)>> \o <<last>>
          BY <2>2, <2>3
    <3>3. st = <<ClearTerms(NoTerm), last>>
          BY <3>2, TwoJoined
    <3>4. Plan(calendar, st, "term")
          BY <2>1, <3>1, <3>3 DEF Plan, TermPlan
    <3>5. QED BY <2>1, <3>4, BeginsPlan
  <2>4. CASE ~current
    <3>1. last = AddTerm(t, s, FALSE)
          BY <2>2, <2>4 DEF AddTerm
    <3>2. st = <<>> \o <<last>>
          BY <2>2, <2>4
    <3>3. st = <<last>>
          BY <3>2
    <3>4. Plan(calendar, st, "term")
          BY <2>1, <3>1, <3>3 DEF Plan, TermPlan
    <3>5. QED BY <2>1, <3>4, BeginsPlan
  <2>5. QED BY <2>3, <2>4
<1>4. ASSUME NEW s \in Sessions, NEW asked \in {"unset", "yes", "no"}, UpdateTerm(r, t, s, asked)
      PROVE  CalendarInv'
  <2> DEFINE current == IF asked = "unset" THEN t \in calendar.currentTerm ELSE asked = "yes"
             st == (IF current THEN <<ClearTerms(t)>> ELSE <<>>) \o <<PutTerm(t, s, current)>>
  <2>1. /\ t \in calendar.terms /\ s \in calendar.sessions \cup {calendar.of[t]}
        /\ Begin(r, "term", st, {})
        BY <1>4 DEF UpdateTerm
  <2>2. Sound(calendar) => s \in calendar.sessions
        BY <2>1 DEF Sound
  <2>3. current \in BOOLEAN
    <3>1. CASE asked = "unset"
          BY <3>1
    <3>2. CASE asked # "unset"
          BY <3>2
    <3>3. QED BY <3>1, <3>2
  <2> HIDE DEF current
  <2>4. PICK last : last = PutTerm(t, s, current)
        OBVIOUS
  <2>5. CASE current
    <3>1. last = PutTerm(t, s, TRUE)
          BY <2>3, <2>4, <2>5 DEF PutTerm
    <3>2. st = <<ClearTerms(t)>> \o <<last>>
          BY <2>4, <2>5
    <3>3. st = <<ClearTerms(t), last>>
          BY <3>2, TwoJoined
    <3>4. Sound(calendar) => Plan(calendar, st, "term")
          BY <2>2, <3>1, <3>3 DEF Plan, TermPlan
    <3>5. QED BY <2>1, <3>4, BeginsPlan
  <2>6. CASE ~current
    <3>1. last = PutTerm(t, s, FALSE)
          BY <2>3, <2>4, <2>6 DEF PutTerm
    <3>2. st = <<>> \o <<last>>
          BY <2>4, <2>6
    <3>3. st = <<last>>
          BY <3>2
    <3>4. Sound(calendar) => Plan(calendar, st, "term")
          BY <2>2, <3>1, <3>3 DEF Plan, TermPlan
    <3>5. QED BY <2>1, <3>4, BeginsPlan
  <2>7. QED BY <2>5, <2>6
<1>5. QED BY <1>1, <1>2, <1>3, <1>4

\* Of the terms that are seeded one is current.
LEMMA SeedRequests ==
    ASSUME CalendarInv, NEW r \in Planners, NEW s \in Sessions,
           NEW new \in TupleOf(Terms, SeedTerms), SeedCalendar(r, s, new)
    PROVE  CalendarInv'
<1>1. PICK current \in 1 .. SeedTerms :
         Begin(r, "seed", <<AddSession(s, TRUE)>>
                  \o [i \in 1 .. SeedTerms |-> AddTerm(new[i], s, i = current)]
                  \o <<Relist>>, {s} \cup ToSet(new))
      BY DEF SeedCalendar
<1>2. PICK seeds : seeds = [i \in 1 .. SeedTerms |-> AddTerm(new[i], s, i = current)]
      OBVIOUS
<1>3. PICK first : first = AddSession(s, TRUE)
      OBVIOUS
<1>4. PICK st : st = <<first>> \o seeds \o <<Relist>>
      OBVIOUS
<1>5. Begin(r, "seed", st, {s} \cup ToSet(new))
      BY <1>1, <1>2, <1>3, <1>4
<1>6. SeedTerms \in Nat \ {0} /\ new \in [1 .. SeedTerms -> Terms]
      BY CalendarAssumption DEF TupleOf
<1>7. ASSUME NEW i \in 1 .. SeedTerms
      PROVE  /\ i # current => AddsTerm(seeds[i], s, FALSE) /\ ~AddsTerm(seeds[i], s, TRUE)
             /\ i = current => AddsTerm(seeds[i], s, TRUE)
  <2>1. PICK on \in BOOLEAN : on <=> i = current
        OBVIOUS
  <2>2. seeds[i] = [do |-> "addTerm", term |-> new[i], session |-> s, current |-> on]
        BY <1>2, <2>1 DEF AddTerm
  <2>3. new[i] \in Terms
        BY <1>6
  <2>4. CASE on
        BY <2>1, <2>2, <2>3, <2>4 DEF AddsTerm, AddTerm
  <2>5. CASE ~on
    <3>1. on = FALSE
          BY <2>5
    <3>2. seeds[i].current = on
          BY <2>2
    <3>3. seeds[i] = AddTerm(new[i], s, FALSE)
          BY <2>2, <3>1, Zenon DEF AddTerm
    <3>4. seeds[i] = AddTerm(new[i], s, FALSE) /\ seeds[i].current = FALSE
          BY <3>1, <3>2, <3>3
    <3>5. AddsTerm(seeds[i], s, FALSE)
          BY <2>3, <3>4 DEF AddsTerm
    <3>6. \A t \in Terms : AddTerm(t, s, TRUE).current = TRUE
          BY DEF AddTerm
    <3>7. ~AddsTerm(seeds[i], s, TRUE)
          BY <3>4, <3>6 DEF AddsTerm
    <3>8. QED BY <2>1, <2>5, <3>5, <3>7
  <2>6. QED BY <2>4, <2>5
<1>8. ~AddsTerm(Relist, s, TRUE)
      BY DEF AddsTerm, AddTerm, Relist
<1>9. PICK S : first \in S /\ Relist \in S /\ \A i \in 1 .. SeedTerms : seeds[i] \in S
  <2>1. WITNESS {first, Relist} \cup {seeds[i] : i \in 1 .. SeedTerms}
  <2>2. QED OBVIOUS
<1>10. seeds \in Seq(S) /\ Len(seeds) = SeedTerms
  <2>1. seeds \in [1 .. SeedTerms -> S]
        BY <1>2, <1>9
  <2>2. QED BY <1>6, <2>1, SeqDef
<1>11. <<first>> \in Seq(S) /\ Len(<<first>>) = 1 /\ <<Relist>> \in Seq(S) /\ Len(<<Relist>>) = 1
       BY <1>9
<1>12. PICK front : front = <<first>> \o seeds
       OBVIOUS
<1>13. /\ front \in Seq(S) /\ Len(front) = 1 + SeedTerms
       /\ front[1] = first /\ \A i \in 1 .. SeedTerms : front[i + 1] = seeds[i]
  <2>1. PICK lead : lead = <<first>>
        OBVIOUS
  <2>2. lead \in Seq(S) /\ Len(lead) = 1 /\ lead[1] = first
        BY <1>11, <2>1
  <2>3. /\ front \in Seq(S) /\ Len(front) = Len(lead) + Len(seeds)
        /\ \A i \in 1 .. Len(lead) + Len(seeds) :
              front[i] = IF i <= Len(lead) THEN lead[i] ELSE seeds[i - Len(lead)]
        BY <1>10, <1>12, <2>1, <2>2, ConcatProperties
  <2>4. QED BY <1>6, <1>10, <2>2, <2>3
<1>14. /\ st \in Seq(S) /\ Len(st) = SeedTerms + 2
       /\ st[1] = first /\ \A i \in 1 .. SeedTerms : st[i + 1] = seeds[i]
       /\ st[SeedTerms + 2] = Relist
  <2>1. PICK last : last = <<Relist>>
        OBVIOUS
  <2>2. last \in Seq(S) /\ Len(last) = 1 /\ last[1] = Relist
        BY <1>11, <2>1
  <2>3. /\ st \in Seq(S) /\ Len(st) = Len(front) + Len(last)
        /\ \A i \in 1 .. Len(front) + Len(last) :
              st[i] = IF i <= Len(front) THEN front[i] ELSE last[i - Len(front)]
        BY <1>4, <1>12, <1>13, <2>1, <2>2, ConcatProperties
  <2>4. \A i \in 1 .. SeedTerms : st[i + 1] = front[i + 1]
        BY <1>6, <1>13, <2>2, <2>3
  <2>5. QED BY <1>6, <1>13, <2>2, <2>3, <2>4
<1>15. st # <<>> /\ Head(st) = first /\ Len(Tail(st)) = SeedTerms + 1
       /\ \A i \in 1 .. SeedTerms + 1 : Tail(st)[i] = st[i + 1]
  <2>1. st # <<>>
    <3>1. Len(<<>>) = 0
          OBVIOUS
    <3>2. st = <<>> => Len(st) = 0
          BY <3>1
    <3>3. QED BY <1>6, <1>14, <3>2
  <2>2. Head(st) = st[1] /\ Len(Tail(st)) = SeedTerms + 1
        BY <1>6, <1>14, <2>1, HeadTailProperties
  <2>3. \A i \in 1 .. Len(Tail(st)) : Tail(st)[i] = st[i + 1]
        BY <1>14, <2>1, HeadTailProperties
  <2>4. QED BY <1>14, <2>1, <2>2, <2>3
<1>16. ASSUME NEW i \in 1 .. SeedTerms + 1
       PROVE  \/ i \in 1 .. SeedTerms /\ Tail(st)[i] = seeds[i]
              \/ Tail(st)[i] = Relist
  <2>1. CASE i \in 1 .. SeedTerms
        BY <1>14, <1>15, <2>1
  <2>2. CASE i = SeedTerms + 1
        BY <1>6, <1>14, <1>15, <2>2
  <2>3. SeedTerms \in Nat
        BY <1>6
  <2>4. i \in 1 .. SeedTerms \/ i = SeedTerms + 1
        BY <2>3
  <2>5. QED BY <2>1, <2>2, <2>4
<1>17. ASSUME calendar.currentTerm = {} PROVE SeedsTerms(calendar, Tail(st), s)
  <2>1. ASSUME NEW i \in 1 .. SeedTerms + 1
        PROVE  /\ \/ Tail(st)[i] = Relist \/ AddsTerm(Tail(st)[i], s, FALSE)
                  \/ AddsTerm(Tail(st)[i], s, TRUE)
               /\ AddsTerm(Tail(st)[i], s, TRUE) => i = current
    <3>1. CASE i \in 1 .. SeedTerms /\ Tail(st)[i] = seeds[i]
          BY <1>7, <3>1
    <3>2. CASE Tail(st)[i] = Relist
          BY <1>8, <3>2
    <3>3. QED BY <1>16, <3>1, <3>2
  <2>2. 1 .. Len(Tail(st)) = 1 .. SeedTerms + 1
        BY <1>15
  <2>3. \A i, j \in 1 .. Len(Tail(st)) :
           AddsTerm(Tail(st)[i], s, TRUE) /\ AddsTerm(Tail(st)[j], s, TRUE) => i = j
    <3>1. \A i \in 1 .. Len(Tail(st)) : AddsTerm(Tail(st)[i], s, TRUE) => i = current
          BY <2>1, <2>2
    <3>2. QED BY <3>1
  <2>4. QED BY <1>17, <2>1, <2>2, <2>3 DEF SeedsTerms
<1>18. ASSUME calm' PROVE CalendarInv'
  <2>1. calendar.sessions = {} /\ Sound(calendar)
        BY <1>18 DEF SeedCalendar, CalendarInv, Begin
  <2>2. calendar.currentTerm = {}
        BY <2>1 DEF Sound
  <2>3. st \in Seq(ToSet(st)) /\ Len(st) > 1
        BY <1>6, <1>14, OwnElements
  <2>4. SeedPlan(calendar, st)
        BY <1>3, <1>15, <1>17, <2>1, <2>2, <2>3 DEF SeedPlan
  <2>5. QED BY <1>5, <2>4, BeginsPlan DEF Plan
<1>19. QED BY <1>18 DEF CalendarInv

LEMMA CalendarStart ==
    ASSUME CalendarInit
    PROVE  CalendarInv
<1>1. CalendarRow(calendar) /\ Sound(calendar)
      BY DEF CalendarInit, EmptyCalendar, CalendarRow, Sound, AtMostOne
<1>2. \A r \in Planners : Plan(calendar, todo[r], kind[r])
      BY DEF CalendarInit, Plan
<1>3. QED BY <1>1, <1>2 DEF CalendarInit, CalendarInv

LEMMA CalendarStep ==
    ASSUME CalendarInv, [CalendarNext]_calendarVars
    PROVE  CalendarInv'
<1>1. CASE CacheEmptyList
      BY <1>1 DEF CacheEmptyList, CalendarInv
<1>2. CASE ExpireEmptyList
      BY <1>2 DEF ExpireEmptyList, CalendarInv
<1>3. CASE UNCHANGED calendarVars
      BY <1>3 DEF calendarVars, CalendarInv
<1>4. ASSUME NEW r \in Planners, FailStatement(r) PROVE CalendarInv'
  <2> SUFFICES ASSUME calm' PROVE CalendarInv'
      BY DEF CalendarInv
  <2>1. /\ calm /\ kind[r] # "seed" /\ todo' = [todo EXCEPT ![r] = <<>>]
        /\ UNCHANGED <<calendar, kind, listedEmpty, led>>
        BY <1>4 DEF FailStatement
  <2>2. /\ DOMAIN todo = Planners
        /\ \A q \in Planners : Plan(calendar, todo[q], kind[q])
        BY <2>1 DEF CalendarInv
  <2>3. /\ DOMAIN todo' = Planners /\ todo'[r] = <<>>
        /\ \A q \in Planners : q # r => todo'[q] = todo[q]
        BY <2>1, <2>2
  <2>4. \A q \in Planners : Plan(calendar, todo'[q], kind[q])
    <3>1. Plan(calendar, <<>>, kind[r])
          BY DEF Plan
    <3>2. QED BY <2>2, <2>3, <3>1
  <2>5. QED BY <2>1, <2>3, <2>4 DEF CalendarInv
<1>5. QED BY <1>1, <1>2, <1>3, <1>4, StatementInv, SessionRequests, TermRequests, SeedRequests
          DEF CalendarNext

(***************************************************************************)
(* The requests on sessions and terms that did not overlap leave at most   *)
(* one session and one term current, no term without its session, and the  *)
(* session of a selected term current, wherever each was cut short.        *)
(* (academic.service.ts, the session and term handlers.)                   *)
(***************************************************************************)
THEOREM CalendarIsSound == CalendarSpec => []CalendarSound
<1>1. CalendarInit => CalendarInv
      BY CalendarStart
<1>2. CalendarInv /\ [CalendarNext]_calendarVars => CalendarInv'
      BY CalendarStep
<1>3. ASSUME CalendarInv PROVE CalendarSound
  <2>1. ASSUME NEW S, AtMostOne(S) PROVE Cardinality(S) <= 1
    <3>1. CASE S = {}
          BY <3>1, FS_EmptySet
    <3>2. CASE S # {}
      <4>1. PICK x \in S : S = {x}
            BY <2>1, <3>2 DEF AtMostOne
      <4>2. Cardinality(S) = 1
            BY <4>1, FS_Singleton
      <4>3. QED BY <4>2
    <3>3. QED BY <3>1, <3>2
  <2>2. QED BY <1>3, <2>1 DEF CalendarInv, CalendarSound, Sound, Leads
<1>4. QED BY <1>1, <1>2, <1>3, PTL DEF CalendarSpec

\* The tables of the calendar, and the statements that requests run on them
\* when ids is the set of ids that rows have or had.
Tables == [sessions : SUBSET Sessions, current : SUBSET Sessions, terms : SUBSET Terms,
           of : [Terms -> Sessions \cup {NoSession}], currentTerm : SUBSET Terms]
Tidy(d) == /\ d \in Tables /\ d.current \subseteq d.sessions
           /\ d.currentTerm \subseteq d.terms
SessionStatements(ids) ==
    {ClearSessions(x) : x \in Sessions \cup {NoSession}}
    \cup {AddSession(s, on) : s \in Sessions \cap ids, on \in BOOLEAN}
    \cup {PutSession(s, on) : s \in Sessions \cup {NoSession}, on \in BOOLEAN}
    \cup {DropTermsOf(s) : s \in Sessions} \cup {DropSession(s) : s \in Sessions}
TermStatements(ids) ==
    {ClearTerms(x) : x \in Terms \cup {NoTerm}} \cup {MarkTerm(t) : t \in Terms}
    \cup {AddTerm(t, s, on) : t \in Terms \cap ids, s \in Sessions, on \in BOOLEAN}
    \cup {PutTerm(t, s, on) : t \in Terms, s \in Sessions \cup {NoSession}, on \in BOOLEAN}
    \cup {DropTerm(t) : t \in Terms}
Statements(ids) == SessionStatements(ids) \cup TermStatements(ids) \cup {Relist}

Requests == {"session", "term", "lead", "seed"}
CalendarRows ==
    /\ Tidy(calendar) /\ calendar.sessions \cup calendar.terms \subseteq used
    /\ todo \in [Planners -> Seq(Statements(used))] /\ kind \in [Planners -> Requests]
    /\ plans \in 0 .. MaxPlans
    /\ listedEmpty \in BOOLEAN /\ calm \in BOOLEAN /\ led \in BOOLEAN

LEMMA MoreStatements ==
    ASSUME NEW ids, NEW more, ids \subseteq more
    PROVE  Statements(ids) \subseteq Statements(more)
<1>1. SessionStatements(ids) \subseteq SessionStatements(more)
      BY DEF SessionStatements
<1>2. TermStatements(ids) \subseteq TermStatements(more)
      BY DEF TermStatements
<1>3. QED BY <1>1, <1>2 DEF Statements

LEMMA LongerSeq ==
    ASSUME NEW S, NEW T, S \subseteq T
    PROVE  Seq(S) \subseteq Seq(T)
<1>1. SUFFICES ASSUME NEW st \in Seq(S) PROVE st \in Seq(T)
      OBVIOUS
<1>2. Len(st) \in Nat /\ st \in [1 .. Len(st) -> S]
      OBVIOUS
<1>3. st \in [1 .. Len(st) -> T]
      BY <1>2
<1>4. QED BY <1>2, <1>3, SeqDef

\* A statement leaves tidy tables tidy, and gives no row an id that is not in use.
LEMMA SessionStatementTidies ==
    ASSUME NEW d, Tidy(d), NEW ids, d.sessions \cup d.terms \subseteq ids,
           NEW st \in SessionStatements(ids), NEW e, e = Run(d, st)
    PROVE  Tidy(e) /\ e.sessions \cup e.terms \subseteq ids
<1>1. CASE st \in {ClearSessions(x) : x \in Sessions \cup {NoSession}}
      BY <1>1 DEF ClearSessions, Run, Tidy, Tables
<1>2. CASE st \in {AddSession(s, on) : s \in Sessions \cap ids, on \in BOOLEAN}
  <2>1. PICK s \in Sessions \cap ids : \E on \in BOOLEAN : st = AddSession(s, on)
        BY <1>2
  <2>2. PICK on \in BOOLEAN : st = AddSession(s, on)
        BY <2>1
  <2>3. QED BY <2>2 DEF AddSession, Toggle, Run, Tidy, Tables
<1>3. CASE st \in {PutSession(s, on) : s \in Sessions \cup {NoSession}, on \in BOOLEAN}
  <2>1. PICK s \in Sessions \cup {NoSession} : \E on \in BOOLEAN : st = PutSession(s, on)
        BY <1>3
  <2>2. PICK on \in BOOLEAN : st = PutSession(s, on)
        BY <2>1
  <2>3. CASE s \in d.sessions
        BY <2>2, <2>3 DEF PutSession, Toggle, Run, Tidy, Tables
  <2>4. CASE s \notin d.sessions
        BY <2>2, <2>4 DEF PutSession, Run
  <2>5. QED BY <2>3, <2>4
<1>4. CASE st \in {DropTermsOf(s) : s \in Sessions}
  <2>1. PICK s \in Sessions : st = DropTermsOf(s)
        BY <1>4
  <2>2. e = [d EXCEPT !.terms = @ \ TermsOf(d, s), !.currentTerm = @ \ TermsOf(d, s)]
        BY <2>1 DEF DropTermsOf, Run
  <2>3. QED BY <2>2 DEF Tidy, Tables
<1>5. CASE st \in {DropSession(s) : s \in Sessions}
  <2>1. PICK s \in Sessions : st = DropSession(s)
        BY <1>5
  <2>2. e = [d EXCEPT !.sessions = @ \ {s}, !.current = @ \ {s}]
        BY <2>1 DEF DropSession, Run
  <2>3. QED BY <2>2 DEF Tidy, Tables
<1>6. QED BY <1>1, <1>2, <1>3, <1>4, <1>5 DEF SessionStatements

LEMMA TermStatementTidies ==
    ASSUME NEW d, Tidy(d), NEW ids, d.sessions \cup d.terms \subseteq ids,
           NEW st \in TermStatements(ids), NEW e, e = Run(d, st)
    PROVE  Tidy(e) /\ e.sessions \cup e.terms \subseteq ids
<1>1. CASE st \in {ClearTerms(x) : x \in Terms \cup {NoTerm}}
      BY <1>1 DEF ClearTerms, Run, Tidy, Tables
<1>2. CASE st \in {MarkTerm(t) : t \in Terms}
      BY <1>2 DEF MarkTerm, MarkedTerm, Run, Tidy, Tables
<1>3. ASSUME NEW t \in Terms \cap ids, NEW s \in Sessions \cup {NoSession}, NEW on \in BOOLEAN,
             e = [d EXCEPT !.terms = @ \cup {t}, !.of[t] = s,
                           !.currentTerm = Toggle(@, t, on)]
      PROVE  Tidy(e) /\ e.sessions \cup e.terms \subseteq ids
  <2>1. PICK of : of = [d.of EXCEPT ![t] = s]
        OBVIOUS
  <2>2. of \in [Terms -> Sessions \cup {NoSession}]
        BY <2>1 DEF Tidy, Tables
  <2>3. e = [d EXCEPT !.terms = @ \cup {t}, !.of = of, !.currentTerm = Toggle(@, t, on)]
        BY <1>3, <2>1
  <2>4. PICK marked : marked = Toggle(d.currentTerm, t, on)
        OBVIOUS
  <2>5. marked \subseteq d.terms \cup {t}
        BY <2>4 DEF Toggle, Tidy
  <2>6. e = [sessions |-> d.sessions, current |-> d.current, terms |-> d.terms \cup {t},
             of |-> of, currentTerm |-> marked]
        BY <2>3, <2>4 DEF Tidy, Tables
  <2>7. QED BY <2>2, <2>5, <2>6 DEF Tidy, Tables
<1>4. CASE st \in {AddTerm(t, s, on) : t \in Terms \cap ids, s \in Sessions, on \in BOOLEAN}
  <2>1. PICK t \in Terms \cap ids, s \in Sessions :
             \E on \in BOOLEAN : st = AddTerm(t, s, on)
        BY <1>4
  <2>2. PICK on \in BOOLEAN : st = AddTerm(t, s, on)
        BY <2>1
  <2>3. e = [d EXCEPT !.terms = @ \cup {t}, !.of[t] = s, !.currentTerm = Toggle(@, t, on)]
        BY <2>2 DEF AddTerm, Run
  <2>4. QED BY <1>3, <2>3
<1>5. CASE st \in {PutTerm(t, s, on) : t \in Terms, s \in Sessions \cup {NoSession},
                                       on \in BOOLEAN}
  <2>1. PICK t \in Terms, s \in Sessions \cup {NoSession} :
             \E on \in BOOLEAN : st = PutTerm(t, s, on)
        BY <1>5
  <2>2. PICK on \in BOOLEAN : st = PutTerm(t, s, on)
        BY <2>1
  <2>3. CASE t \in d.terms
    <3>1. e = [d EXCEPT !.terms = @ \cup {t}, !.of[t] = s, !.currentTerm = Toggle(@, t, on)]
          BY <2>2, <2>3 DEF PutTerm, Run
    <3>2. QED BY <1>3, <2>3, <3>1
  <2>4. CASE t \notin d.terms
        BY <2>2, <2>4 DEF PutTerm, Run
  <2>5. QED BY <2>3, <2>4
<1>6. CASE st \in {DropTerm(t) : t \in Terms}
  <2>1. PICK t \in Terms : st = DropTerm(t)
        BY <1>6
  <2>2. e = [d EXCEPT !.terms = @ \ {t}, !.currentTerm = @ \ {t}]
        BY <2>1 DEF DropTerm, Run
  <2>3. QED BY <2>2 DEF Tidy, Tables
<1>7. QED BY <1>1, <1>2, <1>4, <1>5, <1>6 DEF TermStatements

LEMMA StatementTidies ==
    ASSUME CalendarRows, NEW r \in Planners, Statement(r)
    PROVE  CalendarRows'
<1>1. todo[r] \in Seq(Statements(used)) /\ todo[r] # <<>>
      BY DEF CalendarRows, Statement
<1>2. Head(todo[r]) \in Statements(used) /\ Tail(todo[r]) \in Seq(Statements(used))
      BY <1>1
<1>3. PICK st : st = Head(todo[r])
      OBVIOUS
<1>4. calendar' = Run(calendar, st) /\ used' = used
      BY <1>3 DEF Statement
<1>5. Tidy(calendar) /\ calendar.sessions \cup calendar.terms \subseteq used
      BY DEF CalendarRows
<1>6. Tidy(calendar') /\ calendar'.sessions \cup calendar'.terms \subseteq used
  <2>1. CASE st \in SessionStatements(used)
        BY <1>4, <1>5, <2>1, SessionStatementTidies
  <2>2. CASE st \in TermStatements(used)
        BY <1>4, <1>5, <2>2, TermStatementTidies
  <2>3. CASE st = Relist
    <3>1. Run(calendar, st) = calendar
          BY <2>3 DEF Run, Relist
    <3>2. QED BY <1>4, <1>5, <3>1
  <2>4. QED BY <1>2, <1>3, <2>1, <2>2, <2>3 DEF Statements
<1>7. todo' = [todo EXCEPT ![r] = Tail(todo[r])] /\ UNCHANGED <<used, kind, plans, calm>>
      BY DEF Statement
<1>8. todo' \in [Planners -> Seq(Statements(used))]
      BY <1>2, <1>7 DEF CalendarRows
<1>9. listedEmpty' \in BOOLEAN
      BY DEF Statement, CalendarRows
<1>10. led' \in BOOLEAN
       BY DEF Statement
<1>11. QED BY <1>4, <1>6, <1>7, <1>8, <1>9, <1>10 DEF CalendarRows

LEMMA BeginTidies ==
    ASSUME CalendarRows, NEW r \in Planners, NEW what \in Requests, NEW ids, NEW st,
           st \in Seq(Statements(used \cup ids)), Begin(r, what, st, ids)
    PROVE  CalendarRows'
<1>1. /\ plans < MaxPlans /\ plans' = plans + 1 /\ todo' = [todo EXCEPT ![r] = st]
      /\ kind' = [kind EXCEPT ![r] = what] /\ used' = used \cup ids
      /\ led' = FALSE /\ UNCHANGED <<calendar, listedEmpty>>
      BY DEF Begin
<1>2. calm' \in BOOLEAN
      BY DEF Begin
<1>3. todo' \in [Planners -> Seq(Statements(used'))]
  <2>1. Seq(Statements(used)) \subseteq Seq(Statements(used'))
        BY <1>1, MoreStatements, LongerSeq
  <2>2. st \in Seq(Statements(used'))
        BY <1>1
  <2>3. QED BY <1>1, <2>1, <2>2 DEF CalendarRows
<1>4. plans' \in 0 .. MaxPlans
      BY <1>1, CalendarAssumption DEF CalendarRows
<1>5. QED BY <1>1, <1>2, <1>3, <1>4 DEF CalendarRows

LEMMA BeginTidiesOld ==
    ASSUME CalendarRows, NEW r \in Planners, NEW what \in Requests, NEW st,
           st \in Seq(Statements(used)), Begin(r, what, st, {})
    PROVE  CalendarRows'
<1>1. used \cup {} = used
      OBVIOUS
<1>2. QED BY <1>1, BeginTidies

\* The statements of the handlers.
LEMMA ShortLists ==
    ASSUME NEW S, NEW a \in S, NEW b \in S, NEW on \in BOOLEAN
    PROVE  /\ <<b>> \in Seq(S) /\ <<a, b>> \in Seq(S)
           /\ (IF on THEN <<a>> ELSE <<>>) \o <<b>> \in Seq(S)
OBVIOUS

LEMMA StatementsOfSession ==
    ASSUME NEW ids, NEW s \in Sessions, NEW on \in BOOLEAN
    PROVE  /\ ClearSessions(NoSession) \in Statements(ids) /\ ClearSessions(s) \in Statements(ids)
           /\ PutSession(s, on) \in Statements(ids) /\ PutSession(NoSession, on) \in Statements(ids)
           /\ DropTermsOf(s) \in Statements(ids) /\ DropSession(s) \in Statements(ids)
           /\ s \in ids => AddSession(s, on) \in Statements(ids)
BY DEF Statements, SessionStatements

LEMMA StatementsOfLead ==
    ASSUME NEW ids, NEW s \in Sessions \cup {NoSession}, NEW on \in BOOLEAN
    PROVE  PutSession(s, on) \in Statements(ids)
BY DEF Statements, SessionStatements

LEMMA StatementsOfTerm ==
    ASSUME NEW ids, NEW t \in Terms, NEW s \in Sessions \cup {NoSession}, NEW on \in BOOLEAN
    PROVE  /\ ClearTerms(NoTerm) \in Statements(ids) /\ ClearTerms(t) \in Statements(ids)
           /\ MarkTerm(t) \in Statements(ids) /\ DropTerm(t) \in Statements(ids)
           /\ PutTerm(t, s, on) \in Statements(ids)
           /\ t \in ids /\ s \in Sessions => AddTerm(t, s, on) \in Statements(ids)
BY DEF Statements, TermStatements

LEMMA SessionRequestsTidy ==
    ASSUME CalendarRows, NEW r \in Planners, NEW s \in Sessions,
           \/ DeleteSession(r, s) \/ SetCurrentSession(r, s)
           \/ \E current \in BOOLEAN : CreateSession(r, s, current)
           \/ \E asked \in {"unset", "yes", "no"} : UpdateSession(r, s, asked)
    PROVE  CalendarRows'
<1>0. "session" \in Requests
      BY DEF Requests
<1>1. CASE DeleteSession(r, s)
  <2>1. Begin(r, "session", <<DropTermsOf(s), DropSession(s)>>, {})
        BY <1>1 DEF DeleteSession, DeleteSessionStatements
  <2>2. <<DropTermsOf(s), DropSession(s)>> \in Seq(Statements(used))
    <3>1. DropTermsOf(s) \in Statements(used) /\ DropSession(s) \in Statements(used)
          BY StatementsOfSession
    <3>2. QED BY <3>1, ShortLists
  <2>3. QED BY <1>0, <2>1, <2>2, BeginTidiesOld
<1>2. CASE SetCurrentSession(r, s)
  <2>1. Begin(r, "session", <<ClearSessions(NoSession), PutSession(s, TRUE)>>, {})
        BY <1>2 DEF SetCurrentSession
  <2>2. <<ClearSessions(NoSession), PutSession(s, TRUE)>> \in Seq(Statements(used))
    <3>1. ClearSessions(NoSession) \in Statements(used) /\ PutSession(s, TRUE) \in Statements(used)
          BY StatementsOfSession
    <3>2. QED BY <3>1, ShortLists
  <2>3. QED BY <1>0, <2>1, <2>2, BeginTidiesOld
<1>3. ASSUME NEW current \in BOOLEAN, CreateSession(r, s, current) PROVE CalendarRows'
  <2>1. PICK st : st = IF current THEN <<ClearSessions(NoSession), AddSession(s, TRUE)>>
                       ELSE <<AddSession(s, FALSE)>>
        OBVIOUS
  <2>2. Begin(r, "session", st, {s})
        BY <1>3, <2>1 DEF CreateSession
  <2>3. /\ <<ClearSessions(NoSession), AddSession(s, TRUE)>> \in Seq(Statements(used \cup {s}))
        /\ <<AddSession(s, FALSE)>> \in Seq(Statements(used \cup {s}))
    <3>1. /\ ClearSessions(NoSession) \in Statements(used \cup {s})
          /\ AddSession(s, TRUE) \in Statements(used \cup {s})
          /\ AddSession(s, FALSE) \in Statements(used \cup {s})
          BY StatementsOfSession
    <3>2. QED BY <3>1, ShortLists
  <2>4. st \in Seq(Statements(used \cup {s}))
        BY <2>1, <2>3
  <2>5. QED BY <1>0, <2>2, <2>4, BeginTidies
<1>4. ASSUME NEW asked \in {"unset", "yes", "no"}, UpdateSession(r, s, asked)
      PROVE  CalendarRows'
  <2> DEFINE on == IF asked = "unset" THEN s \in calendar.current ELSE asked = "yes"
             st == (IF on THEN <<ClearSessions(s)>> ELSE <<>>) \o <<PutSession(s, on)>>
  <2>1. Begin(r, "session", st, {})
        BY <1>4 DEF UpdateSession
  <2>2. on \in BOOLEAN
    <3>1. CASE asked = "unset"
          BY <3>1
    <3>2. CASE asked # "unset"
          BY <3>2
    <3>3. QED BY <3>1, <3>2
  <2> HIDE DEF on
  <2>3. PICK last : last = PutSession(s, on)
        OBVIOUS
  <2>4. ClearSessions(s) \in Statements(used) /\ last \in Statements(used)
        BY <2>2, <2>3, StatementsOfSession
  <2>5. st \in Seq(Statements(used))
        BY <2>2, <2>3, <2>4, ShortLists
  <2>6. QED BY <1>0, <2>1, <2>5, BeginTidiesOld
<1>5. QED BY <1>1, <1>2, <1>3, <1>4

LEMMA TermRequestsTidy ==
    ASSUME CalendarRows, NEW r \in Planners, NEW t \in Terms,
           \/ DeleteTerm(r, t) \/ SetCurrentTerm(r, t)
           \/ \E s \in Sessions, current \in BOOLEAN : CreateTerm(r, t, s, current)
           \/ \E s \in Sessions, asked \in {"unset", "yes", "no"} : UpdateTerm(r, t, s, asked)
    PROVE  CalendarRows'
<1>0. "term" \in Requests /\ "lead" \in Requests
      BY DEF Requests
<1>1. calendar.of[t] \in Sessions \cup {NoSession}
      BY DEF CalendarRows, Tidy, Tables
<1>2. CASE DeleteTerm(r, t)
  <2>1. Begin(r, "term", <<DropTerm(t)>>, {})
        BY <1>2 DEF DeleteTerm
  <2>2. <<DropTerm(t)>> \in Seq(Statements(used))
    <3>1. DropTerm(t) \in Statements(used)
          BY DEF Statements, TermStatements
    <3>2. QED BY <3>1, ShortLists
  <2>3. QED BY <1>0, <2>1, <2>2, BeginTidiesOld
<1>3. CASE SetCurrentTerm(r, t)
  <2>1. PICK a : a = ClearTerms(NoTerm)
        OBVIOUS
  <2>2. PICK b : b = MarkTerm(t)
        OBVIOUS
  <2>3. PICK c : c = ClearSessions(NoSession)
        OBVIOUS
  <2>4. PICK d : d = PutSession(calendar.of[t], TRUE)
        OBVIOUS
  <2>5. Begin(r, "lead", <<a, b, c, d>>, {})
        BY <1>3, <2>1, <2>2, <2>3, <2>4 DEF SetCurrentTerm, SetCurrentTermStatements
  <2>6. a \in Statements(used) /\ b \in Statements(used)
        BY <2>1, <2>2, StatementsOfTerm
  <2>7. c \in Statements(used)
        BY <2>3 DEF Statements, SessionStatements
  <2>8. d \in Statements(used)
    <3>1. PICK s : s = calendar.of[t]
          OBVIOUS
    <3>2. s \in Sessions \cup {NoSession} /\ d = PutSession(s, TRUE)
          BY <1>1, <2>4, <3>1
    <3>3. QED BY <3>2, StatementsOfLead
  <2>9. <<a, b, c, d>> \in Seq(Statements(used))
        BY <2>6, <2>7, <2>8
  <2>10. QED BY <1>0, <2>5, <2>9, BeginTidiesOld
<1>4. ASSUME NEW s \in Sessions, NEW on \in BOOLEAN, CreateTerm(r, t, s, on)
      PROVE  CalendarRows'
  <2>1. PICK st : st = (IF on THEN <<ClearTerms(NoTerm)>> ELSE <<>>) \o <<AddTerm(t, s, on)>>
        OBVIOUS
  <2>2. Begin(r, "term", st, {t})
        BY <1>4, <2>1 DEF CreateTerm
  <2>3. /\ ClearTerms(NoTerm) \in Statements(used \cup {t})
        /\ AddTerm(t, s, on) \in Statements(used \cup {t})
        BY StatementsOfTerm
  <2>4. st \in Seq(Statements(used \cup {t}))
        BY <2>1, <2>3, ShortLists
  <2>5. QED BY <1>0, <2>2, <2>4, BeginTidies
<1>5. ASSUME NEW s \in Sessions, NEW asked \in {"unset", "yes", "no"},
             UpdateTerm(r, t, s, asked)
      PROVE  CalendarRows'
  <2> DEFINE on == IF asked = "unset" THEN t \in calendar.currentTerm ELSE asked = "yes"
             st == (IF on THEN <<ClearTerms(t)>> ELSE <<>>) \o <<PutTerm(t, s, on)>>
  <2>1. Begin(r, "term", st, {})
        BY <1>5 DEF UpdateTerm
  <2>2. on \in BOOLEAN
    <3>1. CASE asked = "unset"
          BY <3>1
    <3>2. CASE asked # "unset"
          BY <3>2
    <3>3. QED BY <3>1, <3>2
  <2> HIDE DEF on
  <2>3. PICK last : last = PutTerm(t, s, on)
        OBVIOUS
  <2>4. ClearTerms(t) \in Statements(used) /\ last \in Statements(used)
        BY <2>2, <2>3, StatementsOfTerm
  <2>5. st \in Seq(Statements(used))
        BY <2>2, <2>3, <2>4, ShortLists
  <2>6. QED BY <1>0, <2>1, <2>5, BeginTidiesOld
<1>6. QED BY <1>2, <1>3, <1>4, <1>5

LEMMA SeedRequestsTidy ==
    ASSUME CalendarRows, NEW r \in Planners, NEW s \in Sessions,
           NEW new \in TupleOf(Terms, SeedTerms), SeedCalendar(r, s, new)
    PROVE  CalendarRows'
<1>1. PICK current \in 1 .. SeedTerms :
         Begin(r, "seed", <<AddSession(s, TRUE)>>
                  \o [i \in 1 .. SeedTerms |-> AddTerm(new[i], s, i = current)]
                  \o <<Relist>>, {s} \cup ToSet(new))
      BY DEF SeedCalendar
<1>2. PICK seeds : seeds = [i \in 1 .. SeedTerms |-> AddTerm(new[i], s, i = current)]
      OBVIOUS
<1>3. PICK first : first = AddSession(s, TRUE)
      OBVIOUS
<1>4. PICK ids : ids = {s} \cup ToSet(new)
      OBVIOUS
<1>5. Begin(r, "seed", <<first>> \o seeds \o <<Relist>>, ids)
      BY <1>1, <1>2, <1>3, <1>4
<1>6. SeedTerms \in Nat /\ new \in [1 .. SeedTerms -> Terms]
      BY CalendarAssumption DEF TupleOf
<1>7. first \in Statements(used \cup ids) /\ Relist \in Statements(used \cup ids)
  <2>1. s \in used \cup ids
        BY <1>4
  <2>2. QED BY <1>3, <2>1, StatementsOfSession DEF Statements
<1>8. ASSUME NEW i \in 1 .. SeedTerms PROVE seeds[i] \in Statements(used \cup ids)
  <2>1. PICK on \in BOOLEAN : on <=> i = current
        OBVIOUS
  <2>2. seeds[i] = AddTerm(new[i], s, on)
        BY <1>2, <2>1 DEF AddTerm
  <2>3. new[i] \in Terms /\ new[i] \in used \cup ids
        BY <1>4, <1>6 DEF ToSet
  <2>4. QED BY <2>2, <2>3, StatementsOfTerm
<1>9. seeds \in Seq(Statements(used \cup ids))
  <2>1. seeds \in [1 .. SeedTerms -> Statements(used \cup ids)]
        BY <1>2, <1>8
  <2>2. QED BY <1>6, <2>1, SeqDef
<1>10. <<first>> \o seeds \o <<Relist>> \in Seq(Statements(used \cup ids))
       BY <1>7, <1>9
<1>11. "seed" \in Requests
       BY DEF Requests
<1>12. QED BY <1>5, <1>10, <1>11, BeginTidies

\* Sessions and terms keep their types, whatever requests do to each other
\* and wherever they fail: what is current is among the rows there are.
LEMMA CalendarTypesHold == CalendarSpec => []CalendarTypeOK
<1>1. CalendarInit => CalendarRows
  <2> SUFFICES ASSUME CalendarInit PROVE CalendarRows
      OBVIOUS
  <2>1. Tidy(calendar) /\ calendar.sessions \cup calendar.terms \subseteq used
        BY DEF CalendarInit, EmptyCalendar, Tidy, Tables
  <2>2. todo \in [Planners -> Seq(Statements(used))]
        BY DEF CalendarInit
  <2>3. kind \in [Planners -> Requests]
        BY DEF CalendarInit, Requests
  <2>4. plans \in 0 .. MaxPlans
        BY CalendarAssumption DEF CalendarInit
  <2>5. listedEmpty = FALSE /\ calm = TRUE /\ led = FALSE
        BY DEF CalendarInit
  <2>6. QED BY <2>1, <2>2, <2>3, <2>4, <2>5 DEF CalendarRows
<1>2. CalendarRows /\ [CalendarNext]_calendarVars => CalendarRows'
  <2> SUFFICES ASSUME CalendarRows, [CalendarNext]_calendarVars PROVE CalendarRows'
      OBVIOUS
  <2>1. CASE CacheEmptyList \/ ExpireEmptyList
        BY <2>1 DEF CacheEmptyList, ExpireEmptyList, CalendarRows
  <2>2. CASE UNCHANGED calendarVars
        BY <2>2 DEF calendarVars, CalendarRows
  <2>3. ASSUME NEW r \in Planners, FailStatement(r) PROVE CalendarRows'
    <3>1. todo' = [todo EXCEPT ![r] = <<>>]
          /\ UNCHANGED <<calendar, used, kind, plans, listedEmpty, led>>
          BY <2>3 DEF FailStatement
    <3>2. todo' \in [Planners -> Seq(Statements(used))]
          BY <3>1 DEF CalendarRows
    <3>3. calm' \in BOOLEAN
          BY <2>3 DEF FailStatement
    <3>4. QED BY <3>1, <3>2, <3>3 DEF CalendarRows
  <2>4. QED BY <2>1, <2>2, <2>3, StatementTidies, SessionRequestsTidy, TermRequestsTidy,
               SeedRequestsTidy DEF CalendarNext
<1>3. CalendarRows => CalendarTypeOK
      BY DEF CalendarRows, Tidy, Tables, Requests, CalendarTypeOK
<1>4. QED BY <1>1, <1>2, <1>3, PTL DEF CalendarSpec

(***************************************************************************)
(* What a school keeps of its results and of its terms agrees with itself. *)
(* (academic.service.ts, generateScoreSheetResult and the calendar.)       *)
(***************************************************************************)
THEOREM RecordsAreSound == MarksSpec /\ CalendarSpec => []RecordsSound
BY LegacyIsInSync, CalendarIsSound, PTL DEF RecordsSound

-----------------------------------------------------------------------------
(* What a tenant used: UsageMetering.                                      *)

IngestPcs == {"new", "rollup", "caps", "commit", "done"}
IngestRows == [pc : IngestPcs, event : EventIds \cup {NoEvent}, read : Int, signal : Nat]
MeterTypes ==
    /\ stored \in [EventIds -> Nat] /\ rollup \in Int /\ raised \in [Caps -> Nat]
    /\ ingest \in [Ingests -> IngestRows]
    /\ \A i \in Ingests : Ingesting(i) => ingest[i].event \in EventIds

Counting(i) == ingest[i].pc \in {"caps", "commit"}
Signalled(i) == CapOf(Reached(i)) # "none"

\* However requests overlap: what has been read is of events that are stored.
MeterInv ==
    /\ NoRollup <= rollup /\ rollup <= Total
    /\ rollup = NoRollup => Total = 0
    /\ CapOf(rollup) # "none" => raised[CapOf(rollup)] > 0
    /\ \A i \in Ingests : Counting(i) => NoRollup <= ingest[i].read /\ ingest[i].read <= Total
    /\ \A i \in Ingests : ingest[i].pc = "commit" =>
          /\ ingest[i].signal <= 1
          /\ Signalled(i) /\ ingest[i].signal = 1 => raised[CapOf(Reached(i))] > 0

\* Until two overlap: what the one request has read is still so.
AloneMeterInv ==
    /\ \A i, j \in Ingests : Ingesting(i) /\ Ingesting(j) => i = j
    /\ \A i \in Ingests : Ingesting(i) => ~AlreadyStored(ingest[i].event)
    /\ \A i \in Ingests : Counting(i) => ingest[i].read = rollup
    /\ \A i \in Ingests : ingest[i].pc = "commit" /\ Signalled(i) =>
          ingest[i].signal = raised[CapOf(Reached(i))]
    /\ rollup # NoRollup => rollup = Total
    /\ \A e \in EventIds \ Unidentified : stored[e] <= 1
    /\ \A c \in Caps : raised[c] <= 1
    /\ raised["soft"] > 0 => rollup >= SoftThreshold
    /\ raised["hard"] > 0 => rollup >= Quota

UsageInv == MeterTypes /\ MeterInv /\ (~overlap => AloneMeterInv)

-----------------------------------------------------------------------------
LEMMA CapThresholds ==
    /\ Quota \in Nat /\ Quota > 0 /\ SoftThreshold \in Nat /\ SoftThreshold <= Quota
    /\ Quantity \in [EventIds -> Nat] /\ NoEvent \notin EventIds
BY MeteringAssumption DEF SoftThreshold

\* What a cap says of the quantity that reached it.
LEMMA CapFacts ==
    ASSUME NEW q \in Int
    PROVE  /\ CapOf(q) \in Caps \cup {"none"}
           /\ CapOf(q) = "hard" => q >= Quota
           /\ CapOf(q) = "soft" => q >= SoftThreshold
           /\ q = NoRollup => CapOf(q) = "none"
BY CapThresholds DEF CapOf, Caps, NoRollup

\* One more event adds its quantity to the total.
LEMMA TotalIsNat == MeterTypes => Total \in Nat
<1> SUFFICES ASSUME MeterTypes PROVE Total \in Nat
    OBVIOUS
<1> DEFINE f == [e \in EventIds |-> stored[e] * Quantity[e]]
<1>1. IsFiniteSet(EventIds)
      BY MeteringAssumption
<1>2. \A e \in EventIds : f[e] \in Nat
      BY CapThresholds DEF MeterTypes
<1>3. Total = SumFunctionOnSet(f, EventIds)
      BY DEF Total
<1> HIDE DEF f
<1>4. QED BY <1>1, <1>2, <1>3, SumIsNat

LEMMA TotalGrows ==
    ASSUME MeterTypes, NEW e \in EventIds, stored' = [stored EXCEPT ![e] = stored[e] + 1]
    PROVE  Total' = Total + Quantity[e]
<1> DEFINE f == [x \in EventIds |-> stored[x] * Quantity[x]]
           g == [x \in EventIds |-> stored'[x] * Quantity[x]]
<1>1. IsFiniteSet(EventIds) /\ IsFiniteSet(EventIds \ {e})
      BY MeteringAssumption, FS_RemoveElement
<1>2. /\ \A x \in EventIds : f[x] \in Nat /\ g[x] \in Nat
      /\ \A x \in EventIds \ {e} : f[x] = g[x]
      /\ g[e] = f[e] + Quantity[e]
  <2>1. /\ stored'[e] = stored[e] + 1 /\ \A x \in EventIds \ {e} : stored'[x] = stored[x]
        /\ stored' \in [EventIds -> Nat]
        BY DEF MeterTypes
  <2>2. \A x \in EventIds : stored[x] \in Nat /\ stored'[x] \in Nat /\ Quantity[x] \in Nat
        BY CapThresholds, <2>1 DEF MeterTypes
  <2>3. (stored[e] + 1) * Quantity[e] = stored[e] * Quantity[e] + Quantity[e]
        BY <2>2
  <2>4. QED BY <2>1, <2>2, <2>3
<1>3. Total = SumFunctionOnSet(f, EventIds) /\ Total' = SumFunctionOnSet(g, EventIds)
      BY DEF Total
<1> HIDE DEF f, g
<1>4. /\ SumFunctionOnSet(f, EventIds) = f[e] + SumFunctionOnSet(f, EventIds \ {e})
      /\ SumFunctionOnSet(g, EventIds) = g[e] + SumFunctionOnSet(g, EventIds \ {e})
      BY <1>1, <1>2, SumWithout
<1>5. SumFunctionOnSet(f, EventIds \ {e}) = SumFunctionOnSet(g, EventIds \ {e})
      BY <1>1, <1>2, SumOfEqual
<1>6. SumFunctionOnSet(f, EventIds \ {e}) \in Nat
      BY <1>1, <1>2, SumIsNat
<1>7. Quantity[e] \in Nat
      BY CapThresholds
<1>8. QED BY <1>2, <1>3, <1>4, <1>5, <1>6, <1>7

-----------------------------------------------------------------------------
\* A request goes on with what it has read, and nothing is written.
LEMMA IngestReads ==
    ASSUME UsageInv, NEW i \in Ingests, NEW new \in IngestRows,
           ingest' = [ingest EXCEPT ![i] = new], UNCHANGED <<stored, rollup, raised>>,
           overlap => overlap',
           new.pc \in {"rollup", "caps", "commit"} => new.event \in EventIds,
           ~overlap' /\ new.pc \in {"rollup", "caps", "commit"} =>
              /\ \A j \in Ingests : Ingesting(j) => j = i
              /\ ~AlreadyStored(new.event),
           new.pc \in {"caps", "commit"} =>
              /\ NoRollup <= new.read /\ new.read <= Total
              /\ ~overlap' => new.read = rollup,
           new.pc = "commit" =>
              LET cap == CapOf(Quantity[new.event] + (IF new.read = NoRollup THEN 0 ELSE new.read))
              IN  /\ new.signal <= 1
                  /\ cap # "none" /\ new.signal = 1 => raised[cap] > 0
                  /\ ~overlap' /\ cap # "none" => new.signal = raised[cap]
    PROVE  UsageInv'
<1>1. /\ ingest' \in [Ingests -> IngestRows] /\ ingest'[i] = new
      /\ \A j \in Ingests : j # i => ingest'[j] = ingest[j]
      BY DEF UsageInv, MeterTypes
<1>2. /\ Ingesting(i)' <=> new.pc \in {"rollup", "caps", "commit"}
      /\ Counting(i)' <=> new.pc \in {"caps", "commit"}
      /\ \A j \in Ingests : j # i =>
            /\ Ingesting(j)' <=> Ingesting(j)
            /\ Counting(j)' <=> Counting(j)
            /\ Reached(j)' = Reached(j)
      BY <1>1 DEF Ingesting, Counting, Reached
<1>3. Reached(i)' = Quantity[new.event] + (IF new.read = NoRollup THEN 0 ELSE new.read)
      BY <1>1 DEF Reached
<1>4. Total' = Total
      BY DEF Total
<1>5. MeterTypes'
  <2>1. \A j \in Ingests : Ingesting(j)' => ingest'[j].event \in EventIds
        BY <1>1, <1>2 DEF UsageInv, MeterTypes
  <2>2. QED BY <1>1, <2>1 DEF UsageInv, MeterTypes
<1>6. MeterInv'
  <2>1. ASSUME NEW j \in Ingests, Counting(j)'
        PROVE  NoRollup <= ingest'[j].read /\ ingest'[j].read <= Total
    <3>1. CASE j = i
          BY <1>1, <1>2, <2>1, <3>1
    <3>2. CASE j # i
          BY <1>1, <1>2, <2>1, <3>2 DEF UsageInv, MeterInv
    <3>3. QED BY <3>1, <3>2
  <2>2. ASSUME NEW j \in Ingests, ingest'[j].pc = "commit"
        PROVE  /\ ingest'[j].signal <= 1
               /\ CapOf(Reached(j)') # "none" /\ ingest'[j].signal = 1 =>
                     raised[CapOf(Reached(j)')] > 0
    <3>1. CASE j = i
          BY <1>1, <1>3, <2>2, <3>1
    <3>2. CASE j # i
          BY <1>1, <1>2, <2>2, <3>2 DEF UsageInv, MeterInv, Signalled
    <3>3. QED BY <3>1, <3>2
  <2>3. QED BY <1>4, <2>1, <2>2 DEF UsageInv, MeterInv, Signalled
<1>7. ASSUME ~overlap' PROVE AloneMeterInv'
  <2>1. AloneMeterInv
        BY <1>7 DEF UsageInv
  <2>2. \A j, k \in Ingests : Ingesting(j)' /\ Ingesting(k)' => j = k
        BY <1>2, <1>7, <2>1 DEF AloneMeterInv
  <2>3. \A j \in Ingests : Ingesting(j)' => ~AlreadyStored(ingest'[j].event)
        BY <1>1, <1>2, <1>7, <2>1 DEF AloneMeterInv
  <2>4. \A j \in Ingests : Counting(j)' => ingest'[j].read = rollup
        BY <1>1, <1>2, <1>7, <2>1 DEF AloneMeterInv
  <2>5. ASSUME NEW j \in Ingests, ingest'[j].pc = "commit", CapOf(Reached(j)') # "none"
        PROVE  ingest'[j].signal = raised[CapOf(Reached(j)')]
    <3>1. CASE j = i
          BY <1>1, <1>3, <1>7, <2>5, <3>1
    <3>2. CASE j # i
          BY <1>1, <1>2, <2>1, <2>5, <3>2 DEF AloneMeterInv, Signalled
    <3>3. QED BY <3>1, <3>2
  <2>6. \A j \in Ingests : Ingesting(j)' => ~(ingest'[j].event \notin Unidentified
                                               /\ stored'[ingest'[j].event] > 0)
        BY <2>3 DEF AlreadyStored
  <2>7. QED BY <1>4, <2>1, <2>2, <2>4, <2>5, <2>6 DEF AloneMeterInv, Signalled, AlreadyStored
<1>8. QED BY <1>5, <1>6, <1>7 DEF UsageInv

LEMMA LookUpEventInv ==
    ASSUME UsageInv, NEW i \in Ingests, NEW e \in EventIds, LookUpEvent(i, e)
    PROVE  UsageInv'
<1> DEFINE new == [ingest[i] EXCEPT !.event = e, !.pc = IF AlreadyStored(e) THEN "done" ELSE "rollup"]
<1>1. /\ ingest' = [ingest EXCEPT ![i] = new] /\ UNCHANGED <<stored, rollup, raised>>
      /\ overlap' = (overlap \/ \E j \in Ingests : Ingesting(j))
      BY DEF LookUpEvent
<1>2. /\ new \in IngestRows /\ new.event = e /\ new.pc \in {"rollup", "done"}
      /\ new.pc = "rollup" => ~AlreadyStored(e)
      BY DEF UsageInv, MeterTypes, IngestRows, IngestPcs
<1> HIDE DEF new
<1>3. ~overlap' => ~overlap /\ \A j \in Ingests : ~Ingesting(j)
      BY <1>1
<1>4. QED BY <1>1, <1>2, <1>3, IngestReads

LEMMA ReadRollupInv ==
    ASSUME UsageInv, NEW i \in Ingests, ReadRollup(i)
    PROVE  UsageInv'
<1> DEFINE new == [ingest[i] EXCEPT !.pc = "caps", !.read = rollup]
<1>1. /\ ingest' = [ingest EXCEPT ![i] = new] /\ UNCHANGED <<stored, rollup, raised, overlap>>
      /\ ingest[i].pc = "rollup" /\ Ingesting(i)
      BY DEF ReadRollup, Ingesting
<1>2. /\ new \in IngestRows /\ new.event = ingest[i].event /\ new.pc = "caps"
      /\ new.read = rollup
      BY DEF UsageInv, MeterTypes, IngestRows, IngestPcs
<1>3. /\ new.event \in EventIds /\ NoRollup <= rollup /\ rollup <= Total
      /\ ~overlap => ~AlreadyStored(new.event) /\ \A j \in Ingests : Ingesting(j) => j = i
      BY <1>1, <1>2 DEF UsageInv, MeterTypes, MeterInv, AloneMeterInv
<1> HIDE DEF new
<1>4. QED BY <1>1, <1>2, <1>3, IngestReads

LEMMA CheckCapsInv ==
    ASSUME UsageInv, NEW i \in Ingests, CheckCaps(i)
    PROVE  UsageInv'
<1> DEFINE cap == CapOf(Reached(i))
           found == IF cap = "none" THEN 0 ELSE raised[cap]
           at == IF found > 1 THEN "done" ELSE "commit"
           new == [ingest[i] EXCEPT !.signal = found, !.pc = at]
<1>1. /\ ingest' = [ingest EXCEPT ![i] = new] /\ UNCHANGED <<stored, rollup, raised, overlap>>
      /\ ingest[i].pc = "caps" /\ Ingesting(i) /\ Counting(i)
      BY DEF CheckCaps, Ingesting, Counting
<1>2. ingest[i].event \in EventIds /\ ingest[i] \in IngestRows
      BY <1>1 DEF UsageInv, MeterTypes
<1>3. cap \in Caps \cup {"none"} /\ found \in Nat /\ (cap # "none" => found = raised[cap])
  <2>1. Reached(i) \in Int
        BY <1>2, CapThresholds DEF Reached, IngestRows
  <2>2. cap \in Caps \cup {"none"}
        BY <2>1, CapFacts
  <2> HIDE DEF cap
  <2>3. QED BY <2>2 DEF UsageInv, MeterTypes
<1>4. cap = CapOf(Quantity[ingest[i].event] + (IF ingest[i].read = NoRollup THEN 0 ELSE ingest[i].read))
      BY DEF Reached
<1>8. at \in {"commit", "done"} /\ (at = "commit" => found <= 1)
      BY <1>3
<1> HIDE DEF cap, found, at
<1>5. /\ new \in IngestRows /\ new.event = ingest[i].event /\ new.read = ingest[i].read
      /\ new.signal = found /\ new.pc \in {"commit", "done"} /\ (new.pc = "commit" => found <= 1)
      BY <1>2, <1>3, <1>8 DEF IngestRows, IngestPcs
<1>6. /\ NoRollup <= ingest[i].read /\ ingest[i].read <= Total
      /\ ~overlap => /\ ingest[i].read = rollup /\ ~AlreadyStored(ingest[i].event)
                     /\ \A j \in Ingests : Ingesting(j) => j = i
      BY <1>1, <1>2 DEF UsageInv, MeterTypes, MeterInv, AloneMeterInv
<1> HIDE DEF new
<1>7. cap = CapOf(Quantity[new.event] + (IF new.read = NoRollup THEN 0 ELSE new.read))
      BY <1>4, <1>5
<1>9. new.pc = "commit" => /\ new.signal <= 1
                           /\ cap # "none" /\ new.signal = 1 => raised[cap] > 0
                           /\ ~overlap' /\ cap # "none" => new.signal = raised[cap]
      BY <1>3, <1>5
<1>10. QED BY <1>1, <1>2, <1>5, <1>6, <1>7, <1>9, IngestReads

LEMMA FailUsageInv ==
    ASSUME UsageInv, NEW i \in Ingests, FailUsage(i)
    PROVE  UsageInv'
<1> DEFINE new == [ingest[i] EXCEPT !.pc = "done"]
<1>1. ingest' = [ingest EXCEPT ![i] = new] /\ UNCHANGED <<stored, rollup, raised, overlap>>
      BY DEF FailUsage
<1>2. new \in IngestRows /\ new.pc = "done"
      BY DEF UsageInv, MeterTypes, IngestRows, IngestPcs
<1> HIDE DEF new
<1>3. QED BY <1>1, <1>2, IngestReads

LEMMA CommitUsageInv ==
    ASSUME UsageInv, NEW i \in Ingests, CommitUsage(i)
    PROVE  UsageInv'
<1> DEFINE cap == CapOf(Reached(i))
           e == ingest[i].event
           new == [ingest[i] EXCEPT !.pc = "done"]
<1>1. /\ ingest[i].pc = "commit" /\ Ingesting(i) /\ Counting(i)
      /\ (ingest[i].read = NoRollup => rollup = NoRollup)
      /\ stored' = [stored EXCEPT ![e] = stored[e] + 1] /\ rollup' = Reached(i)
      /\ raised' = IF cap = "none" \/ ingest[i].signal = 1 THEN raised
                   ELSE [raised EXCEPT ![cap] = raised[cap] + 1]
      /\ ingest' = [ingest EXCEPT ![i] = new] /\ overlap' = overlap
      BY DEF CommitUsage, Ingesting, Counting
<1>2. e \in EventIds /\ ingest[i] \in IngestRows /\ ingest[i].read \in Int /\ Quantity[e] \in Nat
      BY <1>1, CapThresholds DEF UsageInv, MeterTypes, IngestRows
<1>3. new \in IngestRows /\ new.pc = "done"
      BY <1>2 DEF IngestRows, IngestPcs
<1> HIDE DEF new
<1>4. /\ ingest' \in [Ingests -> IngestRows] /\ ingest'[i] = new
      /\ \A j \in Ingests : j # i => ingest'[j] = ingest[j]
      BY <1>1, <1>3 DEF UsageInv, MeterTypes
<1>5. /\ ~Ingesting(i)' /\ ~Counting(i)'
      /\ \A j \in Ingests : j # i => /\ Ingesting(j)' <=> Ingesting(j)
                                     /\ Counting(j)' <=> Counting(j)
                                     /\ Reached(j)' = Reached(j)
      BY <1>3, <1>4 DEF Ingesting, Counting, Reached
<1>6. /\ Total \in Nat /\ Total' = Total + Quantity[e]
      /\ NoRollup <= ingest[i].read /\ ingest[i].read <= Total
      BY <1>1, <1>2, TotalIsNat, TotalGrows DEF UsageInv, MeterInv
<1>7. /\ Reached(i) \in Nat /\ Reached(i) <= Total' /\ cap \in Caps \cup {"none"}
      /\ ingest[i].read # NoRollup => Reached(i) = Quantity[e] + ingest[i].read
      /\ ingest[i].read = NoRollup => Reached(i) = Quantity[e]
  <2>1. /\ Reached(i) \in Nat /\ Reached(i) <= Total'
        /\ ingest[i].read # NoRollup => Reached(i) = Quantity[e] + ingest[i].read
        /\ ingest[i].read = NoRollup => Reached(i) = Quantity[e]
        BY <1>2, <1>6 DEF Reached, NoRollup
  <2>2. QED BY <2>1, CapFacts
<1>8. /\ stored' \in [EventIds -> Nat] /\ stored'[e] = stored[e] + 1
      /\ \A x \in EventIds : x # e => stored'[x] = stored[x]
      BY <1>1, <1>2 DEF UsageInv, MeterTypes
<1>9. ingest[i].signal \in Nat /\ ingest[i].signal <= 1
      BY <1>1, <1>2 DEF UsageInv, MeterInv, IngestRows
<1>10. /\ raised' \in [Caps -> Nat] /\ \A c \in Caps : raised'[c] >= raised[c]
       /\ cap # "none" => raised'[cap] > 0
       /\ \A c \in Caps : c # cap => raised'[c] = raised[c]
       /\ cap # "none" /\ ingest[i].signal = 0 => raised'[cap] = raised[cap] + 1
       /\ ingest[i].signal = 1 => raised' = raised
  <2>1. CASE cap = "none" \/ ingest[i].signal = 1
    <3>1. raised' = raised /\ raised \in [Caps -> Nat]
          BY <1>1, <2>1 DEF UsageInv, MeterTypes
    <3>2. cap # "none" => raised[cap] > 0
          BY <1>1, <2>1 DEF UsageInv, MeterInv, Signalled
    <3> HIDE DEF cap
    <3>3. QED BY <2>1, <3>1, <3>2
  <2>2. CASE cap # "none" /\ ingest[i].signal # 1
    <3>1. raised' = [raised EXCEPT ![cap] = raised[cap] + 1] /\ raised \in [Caps -> Nat]
          BY <1>1, <2>2 DEF UsageInv, MeterTypes
    <3> HIDE DEF cap
    <3>2. cap \in Caps
          BY <1>7, <2>2
    <3>3. QED BY <2>2, <3>1, <3>2
  <2>3. QED BY <2>1, <2>2
<1>11. MeterTypes'
  <2>1. \A j \in Ingests : Ingesting(j)' => ingest'[j].event \in EventIds
        BY <1>4, <1>5 DEF UsageInv, MeterTypes
  <2>2. QED BY <1>1, <1>4, <1>7, <1>8, <1>10, <2>1 DEF MeterTypes
<1>12. MeterInv'
  <2>1. ASSUME NEW j \in Ingests, Counting(j)'
        PROVE  NoRollup <= ingest'[j].read /\ ingest'[j].read <= Total'
    <3>1. j # i /\ NoRollup <= ingest[j].read /\ ingest[j].read <= Total
          BY <1>5, <2>1 DEF UsageInv, MeterInv
    <3>2. ingest[j].read \in Int
          BY DEF UsageInv, MeterTypes, IngestRows
    <3>3. QED BY <1>2, <1>4, <1>6, <3>1, <3>2
  <2>2. ASSUME NEW j \in Ingests, ingest'[j].pc = "commit"
        PROVE  /\ ingest'[j].signal <= 1
               /\ CapOf(Reached(j)') # "none" /\ ingest'[j].signal = 1 =>
                     raised'[CapOf(Reached(j)')] > 0
    <3>1. j # i
          BY <1>3, <1>4, <2>2
    <3>2. /\ ingest[j].pc = "commit" /\ ingest[j].event \in EventIds /\ ingest[j].read \in Int
          /\ ingest'[j] = ingest[j] /\ Reached(j)' = Reached(j)
          BY <1>4, <1>5, <2>2, <3>1 DEF UsageInv, MeterTypes, IngestRows, Ingesting
    <3>3. Reached(j) \in Int
          BY <3>2, CapThresholds DEF Reached
    <3>4. CapOf(Reached(j)) \in Caps \cup {"none"}
          BY <3>3, CapFacts
    <3>5. /\ ingest[j].signal <= 1
          /\ CapOf(Reached(j)) # "none" /\ ingest[j].signal = 1 => raised[CapOf(Reached(j))] > 0
          BY <3>2 DEF UsageInv, MeterInv, Signalled
    <3>6. raised \in [Caps -> Nat]
          BY DEF UsageInv, MeterTypes
    <3> DEFINE k == CapOf(Reached(j))
    <3>7. CapOf(Reached(j)') = k
          BY <3>2
    <3> HIDE DEF k
    <3>8. ingest[j].signal = 1 /\ k # "none" => raised'[k] > 0
      <4>1. ingest[j].signal = 1 /\ k # "none" => raised[k] > 0 /\ k \in Caps
            BY <3>4, <3>5 DEF k
      <4>2. QED BY <1>10, <3>6, <4>1
    <3>9. QED BY <3>2, <3>5, <3>7, <3>8
  <2>3. rollup' # NoRollup /\ NoRollup <= rollup' /\ rollup' <= Total'
        BY <1>1, <1>7 DEF NoRollup
  <2>4. CapOf(rollup') # "none" => raised'[CapOf(rollup')] > 0
        BY <1>1, <1>10
  <2>5. QED BY <2>1, <2>2, <2>3, <2>4 DEF MeterInv, Signalled
<1>13. ASSUME ~overlap' PROVE AloneMeterInv'
  <2>1. /\ AloneMeterInv /\ \A j \in Ingests : ~Ingesting(j)'
        /\ ~AlreadyStored(e) /\ ingest[i].read = rollup
        /\ cap # "none" => ingest[i].signal = raised[cap]
    <3>1. AloneMeterInv
          BY <1>1, <1>13 DEF UsageInv
    <3>2. QED BY <1>1, <1>5, <3>1 DEF AloneMeterInv, Signalled
  <2>2. /\ \A j \in Ingests : ~Counting(j)'
        /\ \A j \in Ingests : ingest'[j].pc # "commit"
        BY <2>1 DEF Ingesting, Counting
  <2>3. rollup' = Total'
    <3>1. CASE rollup = NoRollup
      <4>1. Total = 0
            BY <3>1 DEF UsageInv, MeterInv
      <4>2. QED BY <1>1, <1>2, <1>6, <1>7, <2>1, <3>1, <4>1
    <3>2. CASE rollup # NoRollup
          BY <1>1, <1>2, <1>6, <1>7, <2>1, <3>2 DEF AloneMeterInv
    <3>3. QED BY <3>1, <3>2
  <2>4. ASSUME NEW x \in EventIds \ Unidentified PROVE stored'[x] <= 1
    <3>1. stored[x] \in Nat /\ (x = e => stored[x] = 0)
          BY <2>1 DEF AlreadyStored, UsageInv, MeterTypes
    <3>2. QED BY <1>8, <2>1, <3>1 DEF AloneMeterInv
  <2>5. ASSUME NEW c \in Caps PROVE raised'[c] <= 1
    <3>1. raised[c] \in Nat /\ raised[c] <= 1
          BY <2>1 DEF AloneMeterInv, UsageInv, MeterTypes
    <3>2. CASE c # cap
          BY <1>10, <3>1, <3>2
    <3>3. CASE c = cap
      <4>1. cap # "none" /\ ingest[i].signal = raised[c]
            BY <2>1, <3>3 DEF Caps
      <4>2. CASE ingest[i].signal = 1
            BY <1>10, <3>1, <4>2
      <4>3. CASE ingest[i].signal = 0
            BY <1>10, <3>1, <3>3, <4>1, <4>3
      <4>4. QED BY <1>9, <4>2, <4>3
    <3>4. QED BY <3>2, <3>3
  <2>6. rollup \in Int /\ rollup <= rollup'
        BY <1>1, <1>2, <1>7, <2>1 DEF UsageInv, MeterTypes, NoRollup
  <2>7. ASSUME raised'["soft"] > 0 PROVE rollup' >= SoftThreshold
    <3>1. CASE cap = "soft"
          BY <1>1, <1>7, <3>1, CapFacts
    <3>2. CASE cap # "soft"
      <4>1. raised["soft"] > 0
            BY <1>10, <2>7, <3>2 DEF Caps
      <4>2. rollup >= SoftThreshold
            BY <2>1, <4>1 DEF AloneMeterInv
      <4>3. QED BY <1>1, <1>7, <2>6, <4>2, CapThresholds
    <3>3. QED BY <3>1, <3>2
  <2>8. ASSUME raised'["hard"] > 0 PROVE rollup' >= Quota
    <3>1. CASE cap = "hard"
          BY <1>1, <1>7, <3>1, CapFacts
    <3>2. CASE cap # "hard"
      <4>1. raised["hard"] > 0
            BY <1>10, <2>8, <3>2 DEF Caps
      <4>2. rollup >= Quota
            BY <2>1, <4>1 DEF AloneMeterInv
      <4>3. QED BY <1>1, <1>7, <2>6, <4>2, CapThresholds
    <3>3. QED BY <3>1, <3>2
  <2>9. QED BY <2>1, <2>2, <2>3, <2>4, <2>5, <2>7, <2>8 DEF AloneMeterInv
<1>14. QED BY <1>11, <1>12, <1>13 DEF UsageInv

LEMMA UsageStart == UsageInit => UsageInv
<1> SUFFICES ASSUME UsageInit PROVE UsageInv
    OBVIOUS
<1>1. /\ stored = [e \in EventIds |-> 0] /\ rollup = NoRollup
      /\ raised \in [Caps -> Nat] /\ \A c \in Caps : raised[c] = 0
      /\ ingest = [i \in Ingests |-> NewIngest] /\ \A i \in Ingests : ingest[i].pc = "new"
      BY DEF UsageInit, NewIngest
<1>2. MeterTypes
  <2>1. NewIngest \in IngestRows
        BY DEF NewIngest, IngestRows, IngestPcs, NoRollup
  <2>2. QED BY <1>1, <2>1 DEF MeterTypes, Ingesting, NoRollup
<1>3. Total = 0
  <2> DEFINE f == [e \in EventIds |-> stored[e] * Quantity[e]]
  <2>1. \A e \in EventIds : f[e] = 0
        BY <1>1, CapThresholds
  <2>2. Total = SumFunctionOnSet(f, EventIds)
        BY DEF Total
  <2> HIDE DEF f
  <2>3. QED BY <2>1, <2>2, SumOfZeros, MeteringAssumption
<1>4. MeterInv
  <2>1. CapOf(rollup) = "none"
        BY <1>1, CapFacts DEF NoRollup
  <2>2. QED BY <1>1, <1>3, <2>1 DEF MeterInv, NoRollup, Counting
<1>5. AloneMeterInv
      BY <1>1 DEF AloneMeterInv, Ingesting, Counting, Caps
<1>6. QED BY <1>2, <1>4, <1>5 DEF UsageInv

\* What is proved of every state of a meter.
LEMMA UsageAlways == UsageSpec => []UsageInv
<1>1. UsageInv /\ [UsageNext]_usageVars => UsageInv'
  <2>1. SUFFICES ASSUME UsageInv, [UsageNext]_usageVars PROVE UsageInv'
        OBVIOUS
  <2>2. CASE UNCHANGED usageVars
        BY <2>1, <2>2 DEF usageVars, UsageInv, MeterTypes, MeterInv, AloneMeterInv, Total,
           Ingesting, Counting, Reached, Signalled, AlreadyStored
  <2>3. CASE \E i \in Ingests : ReadRollup(i) \/ CheckCaps(i) \/ CommitUsage(i) \/ FailUsage(i)
        BY <2>1, <2>3, ReadRollupInv, CheckCapsInv, CommitUsageInv, FailUsageInv
  <2>4. CASE \E i \in Ingests, e \in EventIds : LookUpEvent(i, e)
        BY <2>1, <2>4, LookUpEventInv
  <2>5. QED BY <2>1, <2>2, <2>3, <2>4 DEF UsageNext
<1>2. QED BY <1>1, UsageStart, PTL DEF UsageSpec

(***************************************************************************)
(* However requests overlap, a tenant is never billed for more than the    *)
(* stored events and a roll-up at a cap has its signal; until two overlap  *)
(* the roll-up is the sum of the events, each that has an id stored once,  *)
(* and no cap is signalled twice or early. (ingest_usage_event and         *)
(* _check_usage_caps.)                                                     *)
(***************************************************************************)
THEOREM UsageIsCounted == UsageSpec => []UsageCounted
<1>1. UsageInv => UsageCounted
      BY DEF UsageInv, MeterInv, AloneMeterInv, UsageCounted
<1>2. QED BY <1>1, UsageAlways, PTL

\* A request that is over has stored one event and raised one signal at most.
Metered == {i \in Ingests : ingest[i].pc = "done"}
UsageCounts ==
    /\ \A e \in EventIds : stored[e] <= Cardinality(Metered)
    /\ \A c \in Caps : raised[c] <= Cardinality(Metered)
    /\ \A i \in Ingests : ingest[i].signal <= Cardinality(Metered) /\ ingest[i].read \in Quantities
    /\ overlap \in BOOLEAN

LEMMA MeteredIsCounted ==
    /\ Cardinality(Metered) \in Nat /\ Cardinality(Ingests) \in Nat
    /\ Cardinality(Metered) <= Cardinality(Ingests)
BY NoMoreThanAll, MeteringAssumption DEF Metered

\* Stored no more often than there are requests, the events add up to no more
\* than all of them.
LEMMA RollupFits ==
    ASSUME MeterTypes, NoRollup <= rollup, rollup <= Total,
           \A e \in EventIds : stored[e] <= Cardinality(Ingests)
    PROVE  rollup \in Quantities
<1> DEFINE f == [e \in EventIds |-> stored[e] * Quantity[e]]
           g == [e \in EventIds |-> Cardinality(Ingests) * Quantity[e]]
<1>1. ASSUME NEW a \in Nat, NEW b \in Nat, NEW q \in Nat, a <= b
      PROVE  a * q \in Nat /\ b * q \in Nat /\ a * q <= b * q
      BY <1>1
<1>2. \A e \in EventIds : f[e] \in Nat /\ g[e] \in Nat /\ f[e] <= g[e]
      BY <1>1, CapThresholds, MeteredIsCounted DEF MeterTypes
<1>3. Total = SumFunctionOnSet(f, EventIds)
      BY DEF Total
<1>4. Quantities = {NoRollup} \cup 0..SumFunctionOnSet(g, EventIds)
      BY DEF Quantities
<1> HIDE DEF f, g
<1>5. SumFunctionOnSet(f, EventIds) <= SumFunctionOnSet(g, EventIds)
      BY <1>2, SumOfLarger, MeteringAssumption
<1>6. SumFunctionOnSet(f, EventIds) \in Nat /\ SumFunctionOnSet(g, EventIds) \in Nat
      BY <1>2, SumIsNat, MeteringAssumption
<1>7. rollup \in Int
      BY DEF MeterTypes
<1>8. QED BY <1>3, <1>4, <1>5, <1>6, <1>7 DEF NoRollup

LEMMA UsageCountsStep ==
    ASSUME UsageInv, UsageInv', UsageCounts, [UsageNext]_usageVars
    PROVE  UsageCounts'
<1>1. /\ MeterTypes /\ MeterTypes' /\ MeterInv
      /\ Metered \in SUBSET Ingests /\ Metered' \in SUBSET Ingests
      BY DEF UsageInv, Metered
<1>2. /\ \A e \in EventIds : stored[e] \in Nat /\ stored'[e] \in Nat
      /\ \A c \in Caps : raised[c] \in Nat /\ raised'[c] \in Nat
      /\ \A i \in Ingests : ingest[i].signal \in Nat /\ ingest'[i].signal \in Nat
      BY <1>1 DEF MeterTypes, IngestRows
<1>3. CASE UNCHANGED usageVars
      BY <1>3 DEF usageVars, UsageCounts, Metered
<1>4. ASSUME Metered \subseteq Metered', overlap' \in BOOLEAN,
             \A e \in EventIds : \/ stored'[e] = stored[e]
                                 \/ stored'[e] = stored[e] + 1 /\ Metered # Metered',
             \A c \in Caps : \/ raised'[c] = raised[c]
                             \/ raised'[c] = raised[c] + 1 /\ Metered # Metered',
             \A i \in Ingests : /\ \/ ingest'[i].signal \in {0, ingest[i].signal}
                                   \/ \E c \in Caps : ingest'[i].signal = raised[c]
                                /\ ingest'[i].read \in Quantities
      PROVE  UsageCounts'
  <2>1. ASSUME NEW e \in EventIds PROVE stored'[e] <= Cardinality(Metered')
    <3>1. stored[e] <= Cardinality(Metered)
          BY DEF UsageCounts
    <3>2. QED BY <1>1, <1>2, <1>4, <3>1, CountsWhoIsThrough, MeteringAssumption
  <2>2. ASSUME NEW c \in Caps PROVE raised'[c] <= Cardinality(Metered')
    <3>1. raised[c] <= Cardinality(Metered)
          BY DEF UsageCounts
    <3>2. QED BY <1>1, <1>2, <1>4, <3>1, CountsWhoIsThrough, MeteringAssumption
  <2>3. ASSUME NEW i \in Ingests PROVE ingest'[i].signal <= Cardinality(Metered')
    <3>1. PICK n \in Nat : n <= Cardinality(Metered) /\ ingest'[i].signal <= n
      <4>1. CASE ingest'[i].signal = 0 \/ ingest'[i].signal = ingest[i].signal
            BY <1>2, <4>1 DEF UsageCounts
      <4>2. ASSUME NEW c \in Caps, ingest'[i].signal = raised[c]
            PROVE  \E n \in Nat : n <= Cardinality(Metered) /\ ingest'[i].signal <= n
            BY <1>2, <4>2 DEF UsageCounts
      <4>3. QED BY <1>4, <4>1, <4>2
    <3>2. QED BY <1>1, <1>2, <1>4, <3>1, CountsWhoIsThrough, MeteringAssumption
  <2>4. QED BY <1>4, <2>1, <2>2, <2>3 DEF UsageCounts
<1>5. ASSUME NEW i \in Ingests, NEW e \in EventIds, LookUpEvent(i, e) PROVE UsageCounts'
  <2>1. /\ \A j \in Ingests : ingest'[j].signal = ingest[j].signal /\ ingest'[j].read = ingest[j].read
        /\ Metered \subseteq Metered'
        BY <1>1, <1>5 DEF LookUpEvent, MeterTypes, IngestRows, Metered
  <2>2. overlap' \in BOOLEAN
        BY <1>5 DEF LookUpEvent, UsageCounts
  <2>3. UNCHANGED <<stored, raised>>
        BY <1>5 DEF LookUpEvent
  <2>4. \A j \in Ingests : ingest'[j].read \in Quantities
        BY <2>1 DEF UsageCounts
  <2>5. QED BY <1>4, <2>1, <2>2, <2>3, <2>4
<1>6. ASSUME NEW i \in Ingests, ReadRollup(i) PROVE UsageCounts'
  <2>1. \A e \in EventIds : stored[e] <= Cardinality(Ingests)
        BY <1>2, MeteredIsCounted DEF UsageCounts
  <2>2. rollup \in Quantities
        BY <1>1, <2>1, RollupFits DEF MeterInv
  <2>3. /\ \A j \in Ingests : /\ ingest'[j].signal = ingest[j].signal
                              /\ ingest'[j].read \in {ingest[j].read, rollup}
        /\ Metered' = Metered
        BY <1>1, <1>6 DEF ReadRollup, MeterTypes, IngestRows, Metered
  <2>4. QED BY <1>2, <1>4, <1>6, <2>2, <2>3 DEF ReadRollup, UsageCounts
<1>7. ASSUME NEW i \in Ingests, CheckCaps(i) PROVE UsageCounts'
  <2>1. PICK signal, pc : /\ ingest' = [ingest EXCEPT ![i].signal = signal, ![i].pc = pc]
                          /\ signal = 0 \/ \E c \in Caps : signal = raised[c]
    <3>1. PICK cap : cap = CapOf(Reached(i))
          OBVIOUS
    <3>2. cap \in Caps \cup {"none"}
          BY <3>1 DEF CapOf, Caps
    <3>3. QED BY <1>7, <3>1, <3>2 DEF CheckCaps
  <2>2. ingest[i].pc = "caps"
        BY <1>7 DEF CheckCaps
  <2>3. /\ \A j \in Ingests : /\ ingest'[j].signal = (IF j = i THEN signal ELSE ingest[j].signal)
                              /\ ingest'[j].read = ingest[j].read
        /\ Metered \subseteq Metered'
        BY <1>1, <2>1, <2>2 DEF MeterTypes, IngestRows, Metered
  <2>4. \A j \in Ingests : \/ ingest'[j].signal \in {0, ingest[j].signal}
                           \/ \E c \in Caps : ingest'[j].signal = raised[c]
        BY <2>1, <2>3
  <2>5. UNCHANGED <<stored, raised>> /\ overlap' \in BOOLEAN
        BY <1>7 DEF CheckCaps, UsageCounts
  <2>6. \A j \in Ingests : ingest'[j].read \in Quantities
        BY <2>3 DEF UsageCounts
  <2>7. QED BY <1>4, <2>3, <2>4, <2>5, <2>6
<1>8. ASSUME NEW i \in Ingests, CommitUsage(i) PROVE UsageCounts'
  <2>1. ingest' = [ingest EXCEPT ![i].pc = "done"] /\ ingest[i].pc = "commit"
        BY <1>8 DEF CommitUsage
  <2>2. /\ \A j \in Ingests : ingest'[j].signal = ingest[j].signal /\ ingest'[j].read = ingest[j].read
        /\ Metered' = Metered \cup {i} /\ i \notin Metered
        BY <1>1, <2>1 DEF MeterTypes, IngestRows, Metered
  <2>3. \A e \in EventIds : stored'[e] \in {stored[e], stored[e] + 1}
        BY <1>1, <1>8 DEF CommitUsage, MeterTypes
  <2>4. PICK cap : raised' \in {raised, [raised EXCEPT ![cap] = @ + 1]}
        BY <1>8 DEF CommitUsage
  <2>5. \A c \in Caps : raised'[c] \in {raised[c], raised[c] + 1}
        BY <1>1, <2>4 DEF MeterTypes
  <2>6. UNCHANGED overlap
        BY <1>8 DEF CommitUsage
  <2>7. overlap' \in BOOLEAN /\ \A j \in Ingests : ingest'[j].read \in Quantities
        BY <2>2, <2>6 DEF UsageCounts
  <2>8. QED BY <1>4, <2>2, <2>3, <2>5, <2>7
<1>9. ASSUME NEW i \in Ingests, FailUsage(i) PROVE UsageCounts'
  <2>1. /\ \A j \in Ingests : ingest'[j].signal = ingest[j].signal /\ ingest'[j].read = ingest[j].read
        /\ Metered \subseteq Metered'
        BY <1>1, <1>9 DEF FailUsage, MeterTypes, IngestRows, Metered
  <2>2. QED BY <1>2, <1>4, <1>9, <2>1 DEF FailUsage, UsageCounts
<1>10. QED BY <1>3, <1>5, <1>6, <1>7, <1>8, <1>9 DEF UsageNext

\* No event is stored more often than there are requests, and the roll-up adds
\* up no more than that.
LEMMA UsageTypesHold == UsageSpec => []UsageTypeOK
<1>1. UsageInit => UsageCounts
  <2>1. NewIngest.signal = 0 /\ NewIngest.read \in Quantities
        BY DEF NewIngest, Quantities
  <2>2. SUFFICES ASSUME UsageInit PROVE UsageCounts
        OBVIOUS
  <2>3. overlap \in BOOLEAN /\ \A i \in Ingests : ingest[i] = NewIngest
        BY <2>2 DEF UsageInit
  <2>4. (\A e \in EventIds : stored[e] = 0) /\ \A c \in Caps : raised[c] = 0
        BY <2>2 DEF UsageInit
  <2>5. QED BY <2>1, <2>3, <2>4, MeteredIsCounted DEF UsageCounts
<1>2. UsageInv /\ UsageCounts => UsageTypeOK
  <2>1. SUFFICES ASSUME MeterTypes, MeterInv, UsageCounts PROVE UsageTypeOK
        BY DEF UsageInv
  <2>2. /\ \A e \in EventIds : stored[e] \in 0..Cardinality(Ingests)
        /\ \A c \in Caps : raised[c] \in 0..Cardinality(Ingests)
        BY <2>1, MeteredIsCounted DEF MeterTypes, UsageCounts
  <2>3. /\ stored \in [EventIds -> 0..Cardinality(Ingests)]
        /\ raised \in [Caps -> 0..Cardinality(Ingests)]
        BY <2>1, <2>2 DEF MeterTypes
  <2>4. rollup \in Quantities
        BY <2>1, <2>2, RollupFits DEF MeterInv
  <2>5. ASSUME NEW i \in Ingests
        PROVE  ingest[i] \in [pc : IngestPcs, event : EventIds \cup {NoEvent},
                              read : Quantities, signal : 0..Cardinality(Ingests)]
    <3>1. /\ ingest[i] \in IngestRows /\ ingest[i].read \in Quantities
          /\ ingest[i].signal <= Cardinality(Metered)
          BY <2>1 DEF MeterTypes, UsageCounts
    <3>2. ingest[i].signal \in 0..Cardinality(Ingests)
          BY <3>1, MeteredIsCounted DEF IngestRows
    <3>3. QED BY <3>1, <3>2 DEF IngestRows
  <2>6. ingest \in [Ingests -> [pc : IngestPcs, event : EventIds \cup {NoEvent},
                                read : Quantities, signal : 0..Cardinality(Ingests)]]
        BY <2>1, <2>5 DEF MeterTypes
  <2>7. QED BY <2>1, <2>3, <2>4, <2>6 DEF UsageCounts, IngestPcs, UsageTypeOK
<1>3. UsageInv /\ UsageInv' /\ UsageCounts /\ [UsageNext]_usageVars => UsageCounts'
      BY UsageCountsStep
<1>4. QED BY <1>1, <1>2, <1>3, UsageAlways, PTL DEF UsageSpec

-----------------------------------------------------------------------------
(* What was agreed with a school: Deals.                                   *)

OfficeRows == [pc : {"new", "commit", "bill", "done"}, deal : Makers,
               read : SubscriptionRows, want : SubscriptionRows, rest : SUBSET Makers]
OfficeTypes ==
    /\ subscriptions \in [Makers -> SubscriptionRows]
    /\ office \in [OfficeCalls -> OfficeRows]
    /\ agreed \in [Makers -> TermSheets \cup {"none"}]
    /\ misbilled \subseteq mixed

Unwritten(row) == row.kind = "none" /\ row.approval = "none" /\ row.terms = "none"
\* Whose row it is, and what a call that is at work means to do to it.
RowInv(m) ==
    /\ Deal(m) => office[m].pc = "done" /\ subscriptions[m].terms \in TermSheets
    /\ m \in PlanChanges /\ office[m].pc \in {"new", "commit"} => Unwritten(subscriptions[m])
Means(call) ==
    /\ call.read.kind = "custom" /\ call.want.kind = "custom"
    /\ call.read.terms \in TermSheets /\ call.want.terms \in TermSheets
Approves(call) ==
    /\ call.want.current /\ call.want.approval = "approved" /\ call.want.terms = call.read.terms
    /\ call.read.approval \in {"draft", "pending"}
BilledWhen(approval) == approval \in {"active", "approved"}
EditsDeal(call) ==
    /\ call.want.current => call.read.current
    /\ BilledWhen(call.want.approval) =>
          call.want.approval = call.read.approval /\ call.want.terms = call.read.terms
ChangesPlan(c, call) ==
    /\ call.deal = c /\ Unwritten(call.read) /\ call.want.current
    /\ call.want.approval = "active"
    /\ \/ call.want.kind = "catalog" /\ call.want.terms = "none"
       \/ call.want.kind = "custom" /\ call.want.terms \in TermSheets
WorkInv(c) ==
    /\ c \in DealApprovals \cup DealEdits \cup PlanChanges
    /\ c \in DealApprovals \cup DealEdits => Deal(office[c].deal) /\ Means(office[c])
    /\ c \in DealApprovals => Approves(office[c])
    /\ c \in DealEdits => EditsDeal(office[c])
    /\ c \in PlanChanges => ChangesPlan(c, office[c])

\* A deal that is not mixed has one call at work on it, which has read what is there.
SoleInv(c) ==
    office[c].deal \notin mixed =>
       /\ \A e \in OfficeCalls : AtWork(e) /\ office[e].deal = office[c].deal => e = c
       /\ subscriptions[office[c].deal].kind = office[c].read.kind
       /\ subscriptions[office[c].deal].approval = office[c].read.approval
       /\ subscriptions[office[c].deal].terms = office[c].read.terms

\* What a current deal and a billable one have behind them.
AgreedInv(d) ==
    /\ Deal(d) /\ subscriptions[d].current =>
          agreed[d] \in TermSheets /\ (Billable(subscriptions[d]) \/ d \in lowered)
    /\ Deal(d) /\ subscriptions[d].approval = "active" => d \in PlanChanges
    /\ Deal(d) /\ d \notin mixed /\ Billable(subscriptions[d]) => subscriptions[d].terms = agreed[d]

\* Until two retire together: the one that is at work retires all but its own.
RetireInv ==
    /\ \A c, e \in Retirers : AtWork(c) /\ AtWork(e) => c = e
    /\ \A c \in Retirers : AtWork(c) => Current \subseteq {office[c].deal} \cup office[c].rest
    /\ \A s, t \in Current : s = t

OfficeInv ==
    /\ OfficeTypes
    /\ \A m \in Makers : RowInv(m) /\ AgreedInv(m)
    /\ \A c \in OfficeCalls : AtWork(c) => WorkInv(c) /\ SoleInv(c)
    /\ ~doubleHanded => RetireInv

-----------------------------------------------------------------------------
Columns == {"kind", "current", "approval", "status", "terms"}
LEMMA RowColumns == \A old \in SubscriptionRows : DOMAIN old = Columns
BY DEF SubscriptionRows, Columns

\* The columns of a row that is written.
LEMMA AltersColumns ==
    ASSUME NEW c, NEW old \in SubscriptionRows
    PROVE  LET want == office[c].want
               read == office[c].read
           IN  Alters(c, old) = [
                 kind |-> IF want.kind # read.kind THEN want.kind ELSE old.kind,
                 current |-> IF want.current # read.current THEN want.current ELSE old.current,
                 approval |-> IF want.approval # read.approval THEN want.approval ELSE old.approval,
                 status |-> IF want.status # read.status THEN want.status ELSE old.status,
                 terms |-> IF want.terms # read.terms THEN want.terms ELSE old.terms]
<1>1. DOMAIN old = Columns
      BY RowColumns
<1>2. QED BY <1>1 DEF Columns, Alters

LEMMA AltersType ==
    ASSUME NEW c, NEW old \in SubscriptionRows, office[c].want \in SubscriptionRows
    PROVE  Alters(c, old) \in SubscriptionRows
BY AltersColumns DEF SubscriptionRows

\* A call is at work from here on, or has done nothing.
LEMMA OfficeStep ==
    ASSUME OfficeTypes, NEW c \in OfficeCalls, NEW new \in OfficeRows,
           office' = [office EXCEPT ![c] = new]
    PROVE  /\ office' \in [OfficeCalls -> OfficeRows] /\ office'[c] = new
           /\ \A e \in OfficeCalls : e # c => office'[e] = office[e]
           /\ AtWork(c)' <=> new.pc = "commit"
           /\ \A e \in OfficeCalls : e # c => (AtWork(e)' <=> AtWork(e))
BY DEF OfficeTypes, AtWork

LEMMA BlankFacts ==
    /\ Blank \in SubscriptionRows /\ Blank.kind = "none" /\ ~Blank.current
    /\ Blank.approval = "none" /\ Blank.terms = "none"
BY DEF Blank, SubscriptionRows

LEMMA MakeDealInv ==
    ASSUME OfficeInv, NEW m \in OfficeCalls, NEW terms \in TermSheets, NEW approval,
           MakeDeal(m, terms, approval)
    PROVE  OfficeInv'
<1> DEFINE row == [kind |-> "custom", current |-> FALSE, approval |-> approval,
                   status |-> "trialing", terms |-> terms]
           new == [office[m] EXCEPT !.pc = "done"]
<1>1. /\ m \in DealMakers /\ m \in Makers /\ m \notin PlanChanges /\ office[m].pc = "new"
      /\ approval \in {"draft", "pending"}
      /\ subscriptions' = [subscriptions EXCEPT ![m] = row]
      /\ office' = [office EXCEPT ![m] = new]
      /\ UNCHANGED <<agreed, lowered, mixed, doubleHanded, misbilled>>
      BY DealAssumption DEF MakeDeal, Makers
<1>2. /\ row \in SubscriptionRows /\ row.kind = "custom" /\ ~row.current
      /\ row.approval = approval /\ row.terms = terms
      BY <1>1 DEF SubscriptionRows, Approvals, Statuses
<1>3. new \in OfficeRows /\ new.pc = "done"
      BY <1>1 DEF OfficeInv, OfficeTypes, OfficeRows
<1> HIDE DEF row, new
<1>4. /\ office' \in [OfficeCalls -> OfficeRows] /\ office'[m] = new
      /\ \A e \in OfficeCalls : e # m => office'[e] = office[e]
      /\ ~AtWork(m)' /\ ~AtWork(m)
      /\ \A e \in OfficeCalls : AtWork(e)' => e # m /\ AtWork(e)
      BY <1>1, <1>3, OfficeStep DEF OfficeInv, AtWork
<1>5. /\ subscriptions' \in [Makers -> SubscriptionRows] /\ subscriptions'[m] = row
      /\ \A s \in Makers : s # m => subscriptions'[s] = subscriptions[s]
      BY <1>1, <1>2 DEF OfficeInv, OfficeTypes
<1>6. ~Deal(m) /\ Deal(m)' /\ \A s \in Makers : s # m => (Deal(s)' <=> Deal(s))
      BY <1>1, <1>2, <1>5 DEF OfficeInv, RowInv, Deal
<1>7. OfficeTypes'
      BY <1>1, <1>4, <1>5 DEF OfficeInv, OfficeTypes
<1>8. ASSUME NEW s \in Makers PROVE RowInv(s)' /\ AgreedInv(s)'
  <2>1. CASE s = m
        BY <1>1, <1>2, <1>3, <1>4, <1>5, <1>6, <2>1 DEF RowInv, AgreedInv, Billable
  <2>2. CASE s # m
    <3>1. s \in OfficeCalls
          BY DEF OfficeCalls
    <3>2. QED BY <1>1, <1>4, <1>5, <1>6, <2>2, <3>1 DEF OfficeInv, RowInv, AgreedInv
  <2>3. QED BY <2>1, <2>2
<1>9. ASSUME NEW e \in OfficeCalls, AtWork(e)' PROVE WorkInv(e)' /\ SoleInv(e)'
  <2>1. /\ AtWork(e) /\ WorkInv(e) /\ SoleInv(e) /\ office'[e] = office[e]
        /\ office[e].deal \in Makers
        BY <1>4, <1>9 DEF OfficeInv, OfficeTypes, OfficeRows
  <2>2. office[e].deal # m
        BY <1>1, <1>4, <1>6, <1>9, <2>1 DEF WorkInv, ChangesPlan
  <2>3. WorkInv(e)'
        BY <1>6, <2>1, <2>2 DEF WorkInv
  <2>4. SoleInv(e)'
        BY <1>1, <1>4, <1>5, <2>1, <2>2 DEF SoleInv
  <2>5. QED BY <2>3, <2>4
<1>10. ASSUME ~doubleHanded' PROVE RetireInv'
  <2>1. RetireInv /\ Current' \subseteq Current
        BY <1>1, <1>2, <1>5, <1>10 DEF OfficeInv, Current
  <2>2. \A c \in Retirers : AtWork(c)' => AtWork(c) /\ office'[c] = office[c]
        BY <1>4 DEF Retirers, OfficeCalls, Makers
  <2>3. QED BY <2>1, <2>2 DEF RetireInv
<1>11. QED BY <1>7, <1>8, <1>9, <1>10 DEF OfficeInv

\* A call has read, and knows what it will write.
LEMMA PreparesInv ==
    ASSUME OfficeInv, NEW c \in OfficeCalls, NEW d \in Makers, NEW want \in SubscriptionRows,
           NEW rest \in SUBSET Makers, Prepares(c, d, want, rest),
           NEW new, new = [pc |-> "commit", deal |-> d, read |-> subscriptions[d],
                           want |-> want, rest |-> rest],
           c \in DealApprovals \cup DealEdits \cup PlanChanges,
           c \in DealApprovals \cup DealEdits => Deal(d) /\ Means(new),
           c \in DealApprovals => Approves(new),
           c \in DealEdits => EditsDeal(new),
           c \in PlanChanges => ChangesPlan(c, new),
           c \in Retirers => Current \subseteq {d} \cup rest
    PROVE  OfficeInv'
<1>1. /\ office[c].pc = "new" /\ office' = [office EXCEPT ![c] = new]
      /\ mixed' = IF \E e \in OfficeCalls \ {c} : AtWork(e) /\ office[e].deal = d
                  THEN mixed \cup {d} ELSE mixed
      /\ doubleHanded' = (doubleHanded \/ (c \in Retirers /\ \E e \in Retirers \ {c} : AtWork(e)))
      /\ UNCHANGED <<subscriptions, agreed, lowered, misbilled>>
      BY DEF Prepares
<1>2. /\ new \in OfficeRows /\ new.pc = "commit" /\ new.deal = d
      /\ new.read = subscriptions[d] /\ new.want = want /\ new.rest = rest
      BY DEF OfficeInv, OfficeTypes, OfficeRows
<1>3. /\ office' \in [OfficeCalls -> OfficeRows] /\ office'[c] = new
      /\ \A e \in OfficeCalls : e # c => office'[e] = office[e]
      /\ AtWork(c)' /\ ~AtWork(c)
      /\ \A e \in OfficeCalls : e # c => (AtWork(e)' <=> AtWork(e))
      BY <1>1, <1>2, OfficeStep DEF OfficeInv, AtWork
<1>4. \A s \in Makers : Deal(s)' <=> Deal(s)
      BY <1>1 DEF Deal
<1>5. mixed \subseteq mixed' /\ Current' = Current
      BY <1>1 DEF Current
<1>6. OfficeTypes'
      BY <1>1, <1>3, <1>5 DEF OfficeInv, OfficeTypes
<1>7. ASSUME NEW s \in Makers PROVE RowInv(s)' /\ AgreedInv(s)'
  <2>1. RowInv(s) /\ AgreedInv(s) /\ s \in OfficeCalls
        BY DEF OfficeInv, OfficeCalls
  <2>2. RowInv(s)'
    <3>1. CASE s = c
          BY <1>1, <1>2, <1>3, <1>4, <2>1, <3>1 DEF RowInv
    <3>2. CASE s # c
          BY <1>1, <1>3, <1>4, <2>1, <3>2 DEF RowInv
    <3>3. QED BY <3>1, <3>2
  <2>3. AgreedInv(s)'
        BY <1>1, <1>4, <1>5, <2>1 DEF AgreedInv
  <2>4. QED BY <2>2, <2>3
<1>8. ASSUME NEW e \in OfficeCalls, AtWork(e)' PROVE WorkInv(e)' /\ SoleInv(e)'
  <2>1. CASE e = c
    <3>1. WorkInv(c)'
          BY <1>2, <1>3, <1>4 DEF WorkInv
    <3>2. ASSUME d \notin mixed', NEW x \in OfficeCalls, AtWork(x)', office'[x].deal = d PROVE x = c
          BY <1>1, <1>3, <3>2
    <3>3. SoleInv(c)'
          BY <1>1, <1>2, <1>3, <3>2 DEF SoleInv
    <3>4. QED BY <2>1, <3>1, <3>3
  <2>2. CASE e # c
    <3>1. AtWork(e) /\ WorkInv(e) /\ SoleInv(e) /\ office'[e] = office[e]
          BY <1>3, <1>8, <2>2 DEF OfficeInv
    <3>2. WorkInv(e)'
      <4>1. office[e].deal \in Makers
            BY DEF OfficeInv, OfficeTypes, OfficeRows
      <4>2. QED BY <1>4, <3>1, <4>1 DEF WorkInv
    <3>3. SoleInv(e)'
      <4>1. CASE office[e].deal = d
        <5>1. d \in mixed'
              BY <1>1, <2>2, <3>1, <4>1
        <5>2. QED BY <3>1, <4>1, <5>1 DEF SoleInv
      <4>2. CASE office[e].deal # d
            BY <1>1, <1>2, <1>3, <1>5, <3>1, <4>2 DEF SoleInv
      <4>3. QED BY <4>1, <4>2
    <3>4. QED BY <3>2, <3>3
  <2>3. QED BY <2>1, <2>2
<1>9. ASSUME ~doubleHanded' PROVE RetireInv'
  <2>1. RetireInv
        BY <1>1, <1>9 DEF OfficeInv
  <2>2. Retirers \subseteq OfficeCalls
        BY DEF Retirers, OfficeCalls, Makers
  <2>3. \A e \in Retirers : AtWork(e)' => e = c \/ (e # c /\ AtWork(e) /\ office'[e] = office[e])
        BY <1>3, <2>2
  <2>4. c \in Retirers => \A e \in Retirers : AtWork(e)' => e = c
        BY <1>1, <1>9, <2>3
  <2>5. \A e, x \in Retirers : AtWork(e)' /\ AtWork(x)' => e = x
        BY <2>1, <2>3, <2>4 DEF RetireInv
  <2>6. \A e \in Retirers : AtWork(e)' => Current \subseteq {office'[e].deal} \cup office'[e].rest
        BY <1>2, <1>3, <2>1, <2>3 DEF RetireInv
  <2>7. QED BY <1>5, <2>1, <2>5, <2>6 DEF RetireInv
<1>10. QED BY <1>6, <1>7, <1>8, <1>9 DEF OfficeInv

LEMMA ReadForApprovalInv ==
    ASSUME OfficeInv, NEW c \in OfficeCalls, NEW d \in Makers, ReadForApproval(c, d)
    PROVE  OfficeInv'
<1> DEFINE want == [subscriptions[d] EXCEPT !.approval = "approved", !.status = "past_due",
                       !.current = TRUE]
           new == [pc |-> "commit", deal |-> d, read |-> subscriptions[d],
                   want |-> want, rest |-> Retired(d)]
<1>1. /\ c \in DealApprovals /\ Deal(d) /\ subscriptions[d].approval \in {"draft", "pending"}
      /\ Prepares(c, d, want, Retired(d))
      BY DEF ReadForApproval
<1>2. subscriptions[d] \in SubscriptionRows /\ Retired(d) \in SUBSET Makers
      BY DEF OfficeInv, OfficeTypes, Retired, Current
<1>3. /\ want \in SubscriptionRows /\ want.kind = subscriptions[d].kind /\ want.current
      /\ want.approval = "approved" /\ want.terms = subscriptions[d].terms
      BY <1>2 DEF SubscriptionRows, Approvals, Statuses
<1> HIDE DEF want
<1>4. /\ new = [pc |-> "commit", deal |-> d, read |-> subscriptions[d],
                want |-> want, rest |-> Retired(d)]
      /\ new.read = subscriptions[d] /\ new.want = want
      OBVIOUS
<1> HIDE DEF new
<1>5. subscriptions[d].kind = "custom" /\ subscriptions[d].terms \in TermSheets
      BY <1>1 DEF Deal, OfficeInv, RowInv
<1>6. Means(new) /\ Approves(new)
      BY <1>1, <1>3, <1>4, <1>5 DEF Means, Approves
<1>7. Current \subseteq {d} \cup Retired(d)
      BY DEF Retired
<1>8. c \notin DealEdits /\ c \notin PlanChanges
      BY <1>1, DealAssumption
<1>9. QED BY <1>1, <1>2, <1>3, <1>4, <1>6, <1>7, <1>8, PreparesInv

LEMMA ReadForEditInv ==
    ASSUME OfficeInv, NEW c \in OfficeCalls, NEW d \in Makers, NEW commercial \in BOOLEAN,
           NEW terms \in TermSheets, NEW approval \in Approvals,
           NEW status \in Statuses,
           ReadForEdit(c, d, commercial, terms, approval, status)
    PROVE  OfficeInv'
<1> DEFINE row == subscriptions[d]
           edited == [row EXCEPT !.terms = terms, !.approval = approval, !.status = status]
           back == [edited EXCEPT !.approval = "pending", !.status = "trialing", !.current = FALSE]
           want == IF SendsBack(row, commercial, approval) THEN back ELSE edited
           new == [pc |-> "commit", deal |-> d, read |-> row, want |-> want, rest |-> {}]
<1>1. /\ c \in DealEdits /\ Deal(d) /\ (terms # row.terms => commercial)
      /\ approval \in {row.approval, "draft", "pending"}
      /\ Prepares(c, d, want, {})
      BY DEF ReadForEdit
<1>2. row \in SubscriptionRows
      BY DEF OfficeInv, OfficeTypes
<1>3. row.kind = "custom" /\ row.terms \in TermSheets
      BY <1>1 DEF Deal, OfficeInv, RowInv
<1> HIDE DEF row
<1>4. /\ edited \in SubscriptionRows /\ edited.kind = row.kind /\ edited.current = row.current
      /\ edited.approval = approval /\ edited.terms = terms
      BY <1>2 DEF SubscriptionRows, Statuses
<1> HIDE DEF edited
<1>5. /\ back \in SubscriptionRows /\ back.kind = row.kind /\ ~back.current
      /\ back.approval = "pending" /\ back.terms = terms
      BY <1>4 DEF SubscriptionRows, Approvals, Statuses
<1> HIDE DEF back
<1>6. /\ want \in SubscriptionRows /\ want.kind = row.kind /\ want.terms = terms
      /\ (want.current => row.current)
      /\ BilledWhen(want.approval) => want.approval = row.approval /\ want.terms = row.terms
  <2>1. CASE SendsBack(row, commercial, approval)
        BY <1>4, <1>5, <2>1 DEF BilledWhen
  <2>2. CASE ~SendsBack(row, commercial, approval)
    <3>1. want = edited
          BY <2>2
    <3>2. BilledWhen(approval) => ~commercial /\ approval = row.approval
          BY <1>1, <2>2 DEF SendsBack, BilledWhen
    <3>3. QED BY <1>1, <1>4, <3>1, <3>2
  <2>3. QED BY <2>1, <2>2
<1> HIDE DEF want
<1>7. /\ new = [pc |-> "commit", deal |-> d, read |-> subscriptions[d],
                want |-> want, rest |-> {}]
      /\ new.read = row /\ new.want = want
      BY DEF row
<1> HIDE DEF new
<1>8. Means(new) /\ EditsDeal(new)
      BY <1>3, <1>6, <1>7 DEF Means, EditsDeal
<1>9. c \notin DealApprovals /\ c \notin PlanChanges /\ c \notin Retirers
      BY <1>1, DealAssumption DEF Retirers
<1>10. QED BY <1>1, <1>6, <1>7, <1>8, <1>9, PreparesInv

LEMMA ReadForPlanInv ==
    ASSUME OfficeInv, NEW c \in OfficeCalls,
           \/ ReadForPlan(c)
           \/ \E type \in {"catalog", "custom"}, terms \in TermSheets \cup {"none"} :
                ReadForSubscription(c, type, terms)
    PROVE  OfficeInv'
<1>1. PICK want \in SubscriptionRows :
         /\ c \in PlanChanges /\ Prepares(c, c, want, Retired(c))
         /\ want.current /\ want.approval = "active"
         /\ \/ want.kind = "catalog" /\ want.terms = "none"
            \/ want.kind = "custom" /\ want.terms \in TermSheets
  <2>1. \A type \in {"catalog", "custom"}, status \in Statuses, terms \in TermSheets \cup {"none"} :
           /\ InForce(type, status, terms) \in SubscriptionRows
           /\ InForce(type, status, terms).kind = type
           /\ InForce(type, status, terms).current
           /\ InForce(type, status, terms).approval = "active"
           /\ InForce(type, status, terms).terms = terms
        BY DEF InForce, SubscriptionRows, Approvals
  <2>2. "past_due" \in Statuses /\ "active" \in Statuses
        BY DEF Statuses
  <2>3. CASE ReadForPlan(c)
        BY <2>1, <2>2, <2>3 DEF ReadForPlan
  <2>4. ASSUME NEW type \in {"catalog", "custom"}, NEW terms \in TermSheets \cup {"none"},
               ReadForSubscription(c, type, terms)
        PROVE  \E want \in SubscriptionRows :
                 /\ c \in PlanChanges /\ Prepares(c, c, want, Retired(c))
                 /\ want.current /\ want.approval = "active"
                 /\ \/ want.kind = "catalog" /\ want.terms = "none"
                    \/ want.kind = "custom" /\ want.terms \in TermSheets
        BY <2>1, <2>2, <2>4 DEF ReadForSubscription
  <2>5. QED BY <2>3, <2>4
<1> DEFINE new == [pc |-> "commit", deal |-> c, read |-> subscriptions[c],
                   want |-> want, rest |-> Retired(c)]
<1>2. c \in Makers /\ office[c].pc = "new"
      BY <1>1 DEF Prepares, Makers
<1>3. Retired(c) \in SUBSET Makers /\ Current \subseteq {c} \cup Retired(c)
      BY DEF Retired, Current
<1>4. Unwritten(subscriptions[c])
      BY <1>1, <1>2 DEF OfficeInv, RowInv
<1>5. new = [pc |-> "commit", deal |-> c, read |-> subscriptions[c],
             want |-> want, rest |-> Retired(c)] /\ ChangesPlan(c, new)
      BY <1>1, <1>4 DEF ChangesPlan
<1> HIDE DEF new
<1>6. c \notin DealApprovals /\ c \notin DealEdits
      BY <1>1, DealAssumption
<1>7. QED BY <1>1, <1>2, <1>3, <1>5, <1>6, PreparesInv

\* What the commit of a call leaves in the row it is about.
LEMMA CommitRow ==
    ASSUME OfficeInv, NEW c \in OfficeCalls, AtWork(c), NEW d, d = office[c].deal,
           NEW old, old = subscriptions[d], NEW row, row = Alters(c, old)
    PROVE  /\ d \in Makers /\ old \in SubscriptionRows /\ row \in SubscriptionRows
           /\ c \in DealApprovals \cup DealEdits =>
                 /\ old.kind = "custom" /\ row.kind = "custom"
                 /\ office[d].pc = "done" /\ row.terms \in TermSheets
           /\ c \in DealApprovals => /\ row.approval = "approved"
                                     /\ office[c].want.terms \in TermSheets
                                     /\ d \notin mixed => row.terms = office[c].want.terms
           /\ c \in DealEdits =>
                 /\ row.current => old.current
                 /\ row.approval = "active" => old.approval = "active"
                 /\ d \notin mixed /\ BilledWhen(row.approval) =>
                       BilledWhen(old.approval) /\ row.terms = old.terms
           /\ c \in PlanChanges =>
                 /\ d = c /\ row.approval = "active" /\ row.terms = office[c].want.terms
                 /\ row.terms \in TermSheets \cup {"none"}
                 /\ row.kind = "custom" => row.terms \in TermSheets
<1> DEFINE read == office[c].read
           want == office[c].want
<1>1. /\ d \in Makers /\ office[c] \in OfficeRows
      /\ read \in SubscriptionRows /\ want \in SubscriptionRows
      BY DEF OfficeInv, OfficeTypes, OfficeRows
<1>2. old \in SubscriptionRows
      BY <1>1 DEF OfficeInv, OfficeTypes
<1>3. /\ row \in SubscriptionRows
      /\ row.kind = IF want.kind # read.kind THEN want.kind ELSE old.kind
      /\ row.current = IF want.current # read.current THEN want.current ELSE old.current
      /\ row.approval = IF want.approval # read.approval THEN want.approval ELSE old.approval
      /\ row.terms = IF want.terms # read.terms THEN want.terms ELSE old.terms
      BY <1>1, <1>2, AltersType, AltersColumns
<1>4. WorkInv(c) /\ SoleInv(c)
      BY DEF OfficeInv
<1>5. ASSUME c \in DealApprovals \cup DealEdits
      PROVE  /\ old.kind = "custom" /\ row.kind = "custom"
             /\ office[d].pc = "done" /\ row.terms \in TermSheets
  <2>1. Deal(d) /\ Means(office[c])
        BY <1>4, <1>5 DEF WorkInv
  <2>2. /\ old.kind = "custom" /\ office[d].pc = "done"
        /\ old.terms \in TermSheets
        BY <1>1, <2>1 DEF OfficeInv, RowInv, Deal
  <2>3. want.kind = "custom" /\ read.kind = "custom" /\ want.terms \in TermSheets
        BY <2>1 DEF Means
  <2> HIDE DEF read, want
  <2>4. QED BY <1>3, <2>2, <2>3
<1>6. ASSUME c \in DealApprovals
      PROVE  /\ row.approval = "approved" /\ want.terms \in TermSheets
             /\ d \notin mixed => row.terms = want.terms
  <2>1. Approves(office[c]) /\ Means(office[c])
        BY <1>4, <1>6 DEF WorkInv
  <2>2. /\ want.approval = "approved" /\ read.approval \in {"draft", "pending"}
        /\ want.terms = read.terms /\ read.terms \in TermSheets
        BY <2>1 DEF Approves, Means
  <2>3. d \notin mixed => old.terms = read.terms
        BY <1>4 DEF SoleInv
  <2> HIDE DEF read, want
  <2>4. QED BY <1>3, <2>2, <2>3
<1>7. ASSUME c \in DealEdits
      PROVE  /\ row.current => old.current
             /\ row.approval = "active" => old.approval = "active"
             /\ d \notin mixed /\ BilledWhen(row.approval) => BilledWhen(old.approval) /\ row.terms = old.terms
  <2>1. EditsDeal(office[c])
        BY <1>4, <1>7 DEF WorkInv
  <2>2. /\ want.current => read.current
        /\ BilledWhen(want.approval) => want.approval = read.approval /\ want.terms = read.terms
        BY <2>1 DEF EditsDeal
  <2>3. d \notin mixed => old.terms = read.terms /\ old.approval = read.approval
        BY <1>4 DEF SoleInv
  <2>4. want.current \in BOOLEAN /\ read.current \in BOOLEAN
        BY <1>1 DEF SubscriptionRows
  <2> HIDE DEF read, want
  <2>5. row.current => old.current
        BY <1>3, <2>2, <2>4
  <2>6. ASSUME d \notin mixed, BilledWhen(row.approval) PROVE BilledWhen(old.approval) /\ row.terms = old.terms
    <3>1. row.approval = want.approval /\ row.terms = want.terms
          BY <1>3, <2>3, <2>6
    <3>2. QED BY <2>2, <2>3, <2>6, <3>1
  <2>7. row.approval = "active" => old.approval = "active"
        BY <1>3, <2>2 DEF BilledWhen
  <2>8. QED BY <2>5, <2>6, <2>7
<1>8. ASSUME c \in PlanChanges
      PROVE  /\ d = c /\ row.approval = "active" /\ row.terms = want.terms
             /\ row.terms \in TermSheets \cup {"none"}
             /\ row.kind = "custom" => row.terms \in TermSheets
  <2>1. ChangesPlan(c, office[c])
        BY <1>4, <1>8 DEF WorkInv
  <2>2. /\ d = c /\ want.kind \in {"catalog", "custom"} /\ want.approval = "active"
        /\ read.kind = "none" /\ read.approval = "none" /\ read.terms = "none"
        /\ want.kind = "catalog" => want.terms = "none"
        /\ want.kind = "custom" => want.terms \in TermSheets
        BY <2>1 DEF ChangesPlan, Unwritten
  <2>3. old.terms = "none"
    <3>1. AtWork(c) /\ c \in Makers
          BY <1>8 DEF Makers
    <3>2. QED BY <1>8, <2>2, <3>1 DEF OfficeInv, RowInv, Unwritten, AtWork
  <2> HIDE DEF read, want
  <2>4. QED BY <1>3, <2>2, <2>3
<1>9. QED BY <1>1, <1>2, <1>3, <1>5, <1>6, <1>7, <1>8

LEMMA CommitCallInv ==
    ASSUME OfficeInv, NEW c \in OfficeCalls, CommitCall(c)
    PROVE  OfficeInv'
<1>1. PICK d, old, row : d = office[c].deal /\ old = subscriptions[d] /\ row = Alters(c, old)
      OBVIOUS
<1> DEFINE new == [office[c] EXCEPT !.pc = "done"]
           rest == office[c].rest
<1>2. /\ AtWork(c) /\ office[c].pc = "commit"
      /\ subscriptions' = [s \in Makers |->
            IF s = d THEN row
            ELSE [subscriptions[s] EXCEPT !.current = subscriptions[s].current /\ s \notin rest]]
      /\ agreed' = IF c \in Retirers THEN [agreed EXCEPT ![d] = office[c].want.terms] ELSE agreed
      /\ lowered' = IF c \in DealEdits /\ row.current /\ ~Billable(row)
                    THEN lowered \cup {d} ELSE lowered \ {d}
      /\ office' = [office EXCEPT ![c] = new]
      /\ UNCHANGED <<mixed, doubleHanded, misbilled>>
      BY <1>1 DEF CommitCall, AtWork
<1>3. /\ d \in Makers /\ old \in SubscriptionRows /\ row \in SubscriptionRows
      /\ c \in DealApprovals \cup DealEdits =>
            /\ old.kind = "custom" /\ row.kind = "custom"
            /\ office[d].pc = "done" /\ row.terms \in TermSheets
      /\ c \in DealApprovals => /\ row.approval = "approved" /\ office[c].want.terms \in TermSheets
                                /\ d \notin mixed => row.terms = office[c].want.terms
      /\ c \in DealEdits =>
            /\ row.current => old.current
            /\ row.approval = "active" => old.approval = "active"
            /\ d \notin mixed /\ BilledWhen(row.approval) => BilledWhen(old.approval) /\ row.terms = old.terms
      /\ c \in PlanChanges =>
            /\ d = c /\ row.approval = "active" /\ row.terms = office[c].want.terms
            /\ row.terms \in TermSheets \cup {"none"}
            /\ row.kind = "custom" => row.terms \in TermSheets
      BY <1>1, <1>2, CommitRow
<1>4. /\ WorkInv(c) /\ SoleInv(c) /\ c \in DealApprovals \cup DealEdits \cup PlanChanges
      BY <1>2 DEF OfficeInv, WorkInv
<1>5. new \in OfficeRows /\ new.pc = "done"
      BY DEF OfficeInv, OfficeTypes, OfficeRows
<1> HIDE DEF new, rest
<1>6. /\ office' \in [OfficeCalls -> OfficeRows] /\ office'[c] = new
      /\ \A e \in OfficeCalls : e # c => office'[e] = office[e]
      /\ ~AtWork(c)'
      /\ \A e \in OfficeCalls : AtWork(e)' => e # c /\ AtWork(e)
      BY <1>2, <1>5, OfficeStep DEF OfficeInv
<1>7. /\ subscriptions' \in [Makers -> SubscriptionRows] /\ subscriptions'[d] = row
      /\ \A s \in Makers : s # d =>
            /\ subscriptions'[s].kind = subscriptions[s].kind
            /\ subscriptions'[s].approval = subscriptions[s].approval
            /\ subscriptions'[s].terms = subscriptions[s].terms
            /\ subscriptions'[s].current <=> subscriptions[s].current /\ s \notin rest
  <2>1. ASSUME NEW s \in Makers, s # d
        PROVE  /\ subscriptions'[s] \in SubscriptionRows
               /\ subscriptions'[s].kind = subscriptions[s].kind
               /\ subscriptions'[s].approval = subscriptions[s].approval
               /\ subscriptions'[s].terms = subscriptions[s].terms
               /\ subscriptions'[s].current <=> subscriptions[s].current /\ s \notin rest
    <3>1. PICK kept \in BOOLEAN : kept <=> subscriptions[s].current /\ s \notin rest
          OBVIOUS
    <3>2. /\ subscriptions[s] \in SubscriptionRows
          /\ subscriptions'[s] = [subscriptions[s] EXCEPT !.current = kept]
          BY <1>2, <2>1, <3>1 DEF OfficeInv, OfficeTypes
    <3>3. QED BY <3>1, <3>2 DEF SubscriptionRows
  <2>2. subscriptions'[d] = row /\ DOMAIN subscriptions' = Makers
        BY <1>2, <1>3
  <2>3. \A s \in Makers : subscriptions'[s] \in SubscriptionRows
        BY <1>3, <2>1, <2>2
  <2>4. subscriptions' = [s \in Makers |-> subscriptions'[s]]
        BY <1>2
  <2>5. subscriptions' \in [Makers -> SubscriptionRows]
        BY <2>3, <2>4
  <2>6. QED BY <2>1, <2>2, <2>5
<1>8. /\ Deal(d)' <=> row.kind = "custom"
      /\ \A s \in Makers : s # d => (Deal(s)' <=> Deal(s))
      BY <1>3, <1>4, <1>7 DEF Deal
<1>9. /\ agreed' \in [Makers -> TermSheets \cup {"none"}]
      /\ c \in Retirers => agreed'[d] = office[c].want.terms
      /\ c \in DealEdits => agreed'[d] = agreed[d]
      /\ \A s \in Makers : s # d => agreed'[s] = agreed[s]
  <2>1. c \in Retirers => office[c].want.terms \in TermSheets \cup {"none"}
        BY <1>3 DEF Retirers
  <2>2. c \in DealEdits => c \notin Retirers
        BY DealAssumption DEF Retirers
  <2>3. agreed \in [Makers -> TermSheets \cup {"none"}]
        BY DEF OfficeInv, OfficeTypes
  <2>4. QED BY <1>2, <1>3, <2>1, <2>2, <2>3
<1>10. OfficeTypes'
      BY <1>2, <1>6, <1>7, <1>9 DEF OfficeInv, OfficeTypes
<1>11. ASSUME NEW s \in Makers PROVE RowInv(s)'
  <2>1. RowInv(s) /\ s \in OfficeCalls
        BY DEF OfficeInv, OfficeCalls
  <2>2. office'[s].pc = "done" \/ (s # c /\ office'[s].pc = office[s].pc)
        BY <1>5, <1>6, <2>1
  <2>3. CASE s = d
    <3>1. Deal(d)' => office'[d].pc = "done" /\ row.terms \in TermSheets
          BY <1>3, <1>4, <1>5, <1>6, <1>8, <2>2, <2>3
    <3>2. office'[d].pc = "done"
          BY <1>3, <1>4, <1>5, <1>6, <2>2, <2>3
    <3>3. QED BY <1>5, <1>6, <1>7, <2>3, <3>1, <3>2 DEF RowInv
  <2>4. CASE s # d
        BY <1>7, <1>8, <2>1, <2>2, <2>4 DEF RowInv, Unwritten
  <2>5. QED BY <2>3, <2>4
<1>12. ASSUME NEW s \in Makers PROVE AgreedInv(s)'
  <2>1. AgreedInv(s)
        BY DEF OfficeInv
  <2>2. CASE s # d
        BY <1>2, <1>7, <1>8, <1>9, <2>1, <2>2 DEF AgreedInv, Billable
  <2>3. CASE s = d /\ c \in DealApprovals
        BY <1>2, <1>3, <1>7, <1>9, <2>3 DEF AgreedInv, Retirers, Billable
  <2>4. CASE s = d /\ c \in DealEdits
    <3>1. Deal(d) /\ subscriptions[d] = old
          BY <1>1, <1>3, <2>4 DEF Deal
    <3>2. row.current => agreed'[d] \in TermSheets
          BY <1>3, <1>9, <2>1, <2>4, <3>1 DEF AgreedInv
    <3>3. row.current => Billable(row) \/ d \in lowered'
          BY <1>2, <2>4
    <3>4. d \notin mixed /\ BilledWhen(row.approval) => row.terms = agreed'[d]
          BY <1>3, <1>9, <2>1, <2>4, <3>1 DEF AgreedInv, Billable, BilledWhen
    <3>5. row.approval = "active" => d \in PlanChanges
          BY <1>3, <2>1, <2>4, <3>1 DEF AgreedInv
    <3>6. QED BY <1>2, <1>7, <2>4, <3>2, <3>3, <3>4, <3>5 DEF AgreedInv, Billable, BilledWhen
  <2>5. CASE s = d /\ c \in PlanChanges
        BY <1>2, <1>3, <1>7, <1>8, <1>9, <2>5 DEF AgreedInv, Retirers, Billable
  <2>6. QED BY <1>4, <2>2, <2>3, <2>4, <2>5
<1>13. ASSUME NEW e \in OfficeCalls, AtWork(e)' PROVE WorkInv(e)' /\ SoleInv(e)'
  <2>1. /\ e # c /\ AtWork(e) /\ WorkInv(e) /\ SoleInv(e) /\ office'[e] = office[e]
        /\ office[e].deal \in Makers
        BY <1>6, <1>13 DEF OfficeInv, OfficeTypes, OfficeRows
  <2>2. Deal(office[e].deal) => Deal(office[e].deal)'
    <3>1. Deal(d) => c \notin PlanChanges
      <4>1. c \in PlanChanges => RowInv(c) /\ d = c
            BY <1>3 DEF OfficeInv, Makers
      <4>2. c \in PlanChanges => subscriptions[d].kind = "none"
            BY <1>2, <4>1 DEF RowInv, Unwritten
      <4>3. QED BY <4>2 DEF Deal
    <3>2. QED BY <1>3, <1>4, <1>8, <2>1, <3>1
  <2>3. WorkInv(e)'
        BY <2>1, <2>2 DEF WorkInv
  <2>4. SoleInv(e)'
    <3>1. CASE office[e].deal \in mixed
          BY <1>2, <2>1, <3>1 DEF SoleInv
    <3>2. CASE office[e].deal \notin mixed
      <4>1. office[e].deal # d
            BY <1>1, <1>2, <2>1, <3>2 DEF SoleInv
      <4>2. QED BY <1>2, <1>6, <1>7, <2>1, <3>2, <4>1 DEF SoleInv
    <3>3. QED BY <3>1, <3>2
  <2>5. QED BY <2>3, <2>4
<1>14. ASSUME ~doubleHanded' PROVE RetireInv'
  <2>1. RetireInv
        BY <1>2, <1>14 DEF OfficeInv
  <2>2. \A e \in Retirers : AtWork(e)' => e # c /\ AtWork(e) /\ office'[e] = office[e]
        BY <1>6 DEF Retirers, OfficeCalls, Makers
  <2>3. \A s \in Current' : s # d => s \in Current /\ s \notin rest
        BY <1>7 DEF Current
  <2>4. CASE c \in Retirers
    <3>1. Current \subseteq {d} \cup rest
          BY <1>1, <1>2, <2>1, <2>4 DEF RetireInv, rest
    <3>2. \A s \in Current' : s = d
          BY <2>3, <3>1
    <3>3. \A e \in Retirers : ~AtWork(e)'
          BY <1>2, <2>1, <2>2, <2>4 DEF RetireInv
    <3>4. QED BY <3>2, <3>3 DEF RetireInv
  <2>5. CASE c \notin Retirers
    <3>1. c \in DealEdits
          BY <1>4, <2>5 DEF Retirers
    <3>2. d \in Current' => d \in Current
          BY <1>1, <1>3, <1>7, <3>1 DEF Current
    <3>3. Current' \subseteq Current
          BY <2>3, <3>2
    <3>4. QED BY <2>1, <2>2, <3>3 DEF RetireInv
  <2>6. QED BY <2>4, <2>5
<1>15. QED BY <1>10, <1>11, <1>12, <1>13, <1>14 DEF OfficeInv

\* A pass of the worker changes no subscription.
LEMMA BillNextInv ==
    ASSUME OfficeInv, NEW c \in OfficeCalls, SelectDue(c) \/ \E s \in Makers : BillNext(c, s)
    PROVE  OfficeInv'
<1>1. /\ UNCHANGED <<subscriptions, agreed, lowered, mixed, doubleHanded>>
      /\ office[c] \in OfficeRows /\ office[c].pc \in {"new", "bill"}
      BY DEF SelectDue, BillNext, OfficeInv, OfficeTypes
<1>2. PICK new \in OfficeRows : new.pc = "bill" /\ office' = [office EXCEPT ![c] = new]
  <2>1. CASE SelectDue(c)
    <3> DEFINE new == [office[c] EXCEPT !.pc = "bill",
                          !.rest = {s \in Current : subscriptions[s].status \in {"active", "past_due"}}]
    <3>1. new \in OfficeRows /\ new.pc = "bill"
          BY <1>1 DEF OfficeRows, Current
    <3>2. office' = [office EXCEPT ![c] = new]
          BY <2>1 DEF SelectDue
    <3> HIDE DEF new
    <3>3. QED BY <3>1, <3>2
  <2>2. ASSUME NEW s \in Makers, BillNext(c, s)
        PROVE  \E new \in OfficeRows : new.pc = "bill" /\ office' = [office EXCEPT ![c] = new]
    <3> DEFINE new == [office[c] EXCEPT !.rest = office[c].rest \ {s}]
    <3>1. new \in OfficeRows /\ new.pc = "bill"
          BY <1>1, <2>2 DEF BillNext, OfficeRows
    <3>2. office' = [office EXCEPT ![c] = new]
          BY <2>2 DEF BillNext
    <3> HIDE DEF new
    <3>3. QED BY <3>1, <3>2
  <2>3. QED BY <2>1, <2>2
<1>3. /\ office' \in [OfficeCalls -> OfficeRows] /\ office'[c] = new
      /\ \A e \in OfficeCalls : e # c => office'[e] = office[e]
      /\ ~AtWork(c)'
      /\ \A e \in OfficeCalls : AtWork(e)' => e # c /\ AtWork(e)
      BY <1>2, OfficeStep DEF OfficeInv
<1>4. /\ \A s \in Makers : Deal(s)' <=> Deal(s)
      /\ Current' = Current
      BY <1>1 DEF Deal, Current
<1>5. misbilled' \subseteq mixed
  <2>1. misbilled \subseteq mixed
        BY DEF OfficeInv, OfficeTypes
  <2>2. ASSUME NEW s \in Makers, BillNext(c, s) PROVE misbilled' \subseteq mixed
    <3>1. Deal(s) /\ s \notin mixed /\ Billable(subscriptions[s]) => subscriptions[s].terms = agreed[s]
          BY DEF OfficeInv, AgreedInv
    <3>2. QED BY <2>1, <2>2, <3>1 DEF BillNext
  <2>3. QED BY <2>1, <2>2 DEF SelectDue
<1>6. OfficeTypes'
      BY <1>1, <1>3, <1>5 DEF OfficeInv, OfficeTypes
<1>7. ASSUME NEW s \in Makers PROVE RowInv(s)' /\ AgreedInv(s)'
  <2>1. RowInv(s) /\ AgreedInv(s) /\ s \in OfficeCalls
        BY DEF OfficeInv, OfficeCalls
  <2>2. /\ office[s].pc = "done" => office'[s].pc = "done"
        /\ office'[s].pc \in {"new", "commit"} => office'[s].pc = office[s].pc
        BY <1>1, <1>2, <1>3, <2>1
  <2>3. RowInv(s)'
        BY <1>1, <1>4, <2>1, <2>2 DEF RowInv
  <2>4. AgreedInv(s)'
        BY <1>1, <1>4, <2>1 DEF AgreedInv
  <2>5. QED BY <2>3, <2>4
<1>8. ASSUME NEW e \in OfficeCalls, AtWork(e)' PROVE WorkInv(e)' /\ SoleInv(e)'
  <2>1. /\ AtWork(e) /\ WorkInv(e) /\ SoleInv(e) /\ office'[e] = office[e]
        /\ office[e].deal \in Makers
        BY <1>3, <1>8 DEF OfficeInv, OfficeTypes, OfficeRows
  <2>2. WorkInv(e)'
        BY <1>4, <2>1 DEF WorkInv
  <2>3. SoleInv(e)'
        BY <1>1, <1>3, <2>1 DEF SoleInv
  <2>4. QED BY <2>2, <2>3
<1>9. ASSUME ~doubleHanded' PROVE RetireInv'
  <2>1. RetireInv
        BY <1>1, <1>9 DEF OfficeInv
  <2>2. \A e \in Retirers : AtWork(e)' => AtWork(e) /\ office'[e] = office[e]
        BY <1>3 DEF Retirers, OfficeCalls, Makers
  <2>3. QED BY <1>4, <2>1, <2>2 DEF RetireInv
<1>10. QED BY <1>6, <1>7, <1>8, <1>9 DEF OfficeInv

LEMMA OfficeStart == DealInit => OfficeInv
<1> SUFFICES ASSUME DealInit PROVE OfficeInv
    OBVIOUS
<1>1. /\ subscriptions = [m \in Makers |-> Blank] /\ agreed = [m \in Makers |-> "none"]
      /\ misbilled = {}
      BY DEF DealInit
<1>2. PICK cast \in DealCasts : office = [c \in OfficeCalls |->
          [IdleCall EXCEPT !.pc = IF c \in cast THEN "new" ELSE "done"]]
      BY DEF DealInit
<1>3. IdleCall \in OfficeRows
  <2>1. Makers # {}
        BY DealAssumption DEF Makers
  <2>2. (CHOOSE m \in Makers : TRUE) \in Makers
        BY <2>1
  <2>3. QED BY <2>2, BlankFacts DEF IdleCall, OfficeRows
<1>4. /\ office \in [OfficeCalls -> OfficeRows]
      /\ \A c \in OfficeCalls : office[c].pc \in {"new", "done"}
      BY <1>2, <1>3 DEF OfficeRows
<1>5. \A m \in Makers : ~Deal(m) /\ Unwritten(subscriptions[m])
      BY <1>1, BlankFacts DEF Deal, Unwritten
<1>6. Current = {} /\ \A c \in OfficeCalls : ~AtWork(c)
      BY <1>1, <1>4, BlankFacts DEF Current, AtWork
<1>7. OfficeTypes
      BY <1>1, <1>4, BlankFacts DEF OfficeTypes
<1>8. \A m \in Makers : RowInv(m) /\ AgreedInv(m)
      BY <1>5 DEF RowInv, AgreedInv
<1>9. RetireInv
      BY <1>6 DEF RetireInv, Retirers, OfficeCalls, Makers
<1>10. QED BY <1>6, <1>7, <1>8, <1>9 DEF OfficeInv

\* What is proved of every state of the office of a school.
LEMMA DealAlways == DealSpec => []OfficeInv
<1>1. OfficeInv /\ [DealNext]_dealVars => OfficeInv'
  <2>1. SUFFICES ASSUME OfficeInv, [DealNext]_dealVars PROVE OfficeInv'
        OBVIOUS
  <2>2. CASE UNCHANGED dealVars
        BY <2>1, <2>2 DEF dealVars, OfficeInv, OfficeTypes, RowInv, AgreedInv, WorkInv, SoleInv,
           RetireInv, Deal, Current, AtWork
  <2>3. ASSUME NEW c \in OfficeCalls, NEW terms \in TermSheets, NEW approval \in Approvals,
               MakeDeal(c, terms, approval)
        PROVE  OfficeInv'
        BY <2>1, <2>3, MakeDealInv
  <2>4. ASSUME NEW c \in OfficeCalls, NEW terms \in TermSheets, NEW d \in Makers,
               NEW commercial \in BOOLEAN, NEW approval \in Approvals,
               NEW status \in Statuses,
               ReadForEdit(c, d, commercial, terms, approval, status)
        PROVE  OfficeInv'
        BY <2>1, <2>4, ReadForEditInv
  <2>5. ASSUME NEW c \in OfficeCalls,
               \/ \E d \in Makers : ReadForApproval(c, d)
               \/ ReadForPlan(c)
               \/ \E type \in {"catalog", "custom"}, terms \in TermSheets \cup {"none"} :
                    ReadForSubscription(c, type, terms)
        PROVE  OfficeInv'
        BY <2>1, <2>5, ReadForApprovalInv, ReadForPlanInv
  <2>6. ASSUME NEW c \in OfficeCalls,
               CommitCall(c) \/ SelectDue(c) \/ \E s \in Makers : BillNext(c, s)
        PROVE  OfficeInv'
        BY <2>1, <2>6, CommitCallInv, BillNextInv
  <2>7. QED BY <2>1, <2>2, <2>3, <2>4, <2>5, <2>6 DEF DealNext
<1>2. QED BY <1>1, OfficeStart, PTL DEF DealSpec

(***************************************************************************)
(* However deals, edits, approvals and plan changes of one school overlap: *)
(* it has one current subscription unless two that retire others were at   *)
(* work together; no deal is current that was neither approved nor created *)
(* current by staff, who need no approval for that; and a deal is billed   *)
(* on the terms it was approved or created with last unless calls on it    *)
(* overlapped.  (deals.py approve_deal and update_deal, internal.py        *)
(* change_tenant_subscription, tenants.py create_subscription, billing.py  *)
(* generate_due_invoices.)                                                 *)
(***************************************************************************)
THEOREM DealsDoStand == DealSpec => []DealsStand
<1>1. OfficeInv => DealsStand
  <2>1. SUFFICES ASSUME OfficeInv PROVE DealsStand
        OBVIOUS
  <2>2. ASSUME ~doubleHanded PROVE ~(Cardinality(Current) > 1)
    <3>1. \A s, t \in Current : s = t
          BY <2>1, <2>2 DEF OfficeInv, RetireInv
    <3>2. CASE Current = {}
          BY <3>2, FS_EmptySet
    <3>3. CASE Current # {}
      <4>1. PICK s \in Current : TRUE
            BY <3>3
      <4>2. Current = {s}
            BY <3>1, <4>1
      <4>3. Cardinality(Current) = 1
            BY <4>2, FS_Singleton
      <4>4. QED BY <4>3
    <3>4. QED BY <3>2, <3>3
  <2>3. ASSUME NEW d \in Current, Deal(d)
        PROVE  /\ agreed[d] # "none"
               /\ Billable(subscriptions[d]) \/ d \in lowered \cup mixed
               /\ subscriptions[d].approval = "active" => d \in PlanChanges
    <3>1. d \in Makers /\ subscriptions[d].current
          BY DEF Current
    <3>2. QED BY <2>1, <2>3, <3>1, DealAssumption DEF OfficeInv, AgreedInv
  <2>4. QED BY <2>1, <2>2, <2>3 DEF OfficeInv, OfficeTypes, DealsStand
<1>2. QED BY <1>1, DealAlways, PTL

\* The deals that calls met at, or lowered, are deals.
DealGhosts == lowered \cup mixed \subseteq Makers /\ doubleHanded \in BOOLEAN

\* Subscriptions and the calls on them keep their types.
LEMMA DealTypesHold == DealSpec => []DealTypeOK
<1>1. DealInit => DealGhosts
      BY DEF DealInit, DealGhosts
<1>2. OfficeInv /\ DealGhosts /\ [DealNext]_dealVars => DealGhosts'
  <2>1. SUFFICES ASSUME OfficeTypes, DealGhosts, [DealNext]_dealVars PROVE DealGhosts'
        BY DEF OfficeInv
  <2>2. CASE UNCHANGED <<lowered, mixed, doubleHanded>>
        BY <2>1, <2>2 DEF DealGhosts
  <2>3. ASSUME NEW c, NEW d \in Makers, NEW want, NEW retired, Prepares(c, d, want, retired)
        PROVE  DealGhosts'
    <3>1. mixed' \in {mixed, mixed \cup {d}} /\ doubleHanded' \in BOOLEAN /\ lowered' = lowered
          BY <2>3 DEF Prepares
    <3>2. QED BY <2>1, <3>1 DEF DealGhosts
  <2>4. ASSUME NEW c \in OfficeCalls, CommitCall(c) PROVE DealGhosts'
    <3>1. office[c].deal \in Makers
          BY <2>1 DEF OfficeTypes, OfficeRows
    <3>2. lowered' \subseteq lowered \cup {office[c].deal} /\ UNCHANGED <<mixed, doubleHanded>>
          BY <2>4 DEF CommitCall
    <3>3. QED BY <2>1, <3>1, <3>2 DEF DealGhosts
  <2>5. ASSUME NEW c \in OfficeCalls, NEW terms \in TermSheets, NEW approval \in Approvals,
               MakeDeal(c, terms, approval)
        PROVE  DealGhosts'
        BY <2>2, <2>5 DEF MakeDeal
  <2>6. ASSUME NEW c \in OfficeCalls, NEW terms \in TermSheets, NEW d \in Makers,
               NEW commercial \in BOOLEAN, NEW approval \in Approvals,
               NEW status \in Statuses,
               ReadForEdit(c, d, commercial, terms, approval, status)
        PROVE  DealGhosts'
    <3>1. \E want, retired : Prepares(c, d, want, retired)
          BY <2>6 DEF ReadForEdit
    <3>2. QED BY <2>3, <3>1
  <2>7. ASSUME NEW c \in OfficeCalls,
               \/ \E d \in Makers : ReadForApproval(c, d)
               \/ ReadForPlan(c)
               \/ \E type \in {"catalog", "custom"}, terms \in TermSheets \cup {"none"} :
                    ReadForSubscription(c, type, terms)
        PROVE  DealGhosts'
    <3>1. PICK d \in Makers : \E want, retired : Prepares(c, d, want, retired)
          BY <2>7 DEF ReadForApproval, ReadForPlan, ReadForSubscription, Makers
    <3>2. QED BY <2>3, <3>1
  <2>8. ASSUME NEW c \in OfficeCalls, SelectDue(c) \/ \E s \in Makers : BillNext(c, s)
        PROVE  DealGhosts'
        BY <2>2, <2>8 DEF SelectDue, BillNext
  <2>9. QED BY <2>1, <2>2, <2>4, <2>5, <2>6, <2>7, <2>8 DEF DealNext, dealVars
<1>3. OfficeInv /\ DealGhosts => DealTypeOK
  <2>1. SUFFICES ASSUME OfficeTypes, DealGhosts PROVE DealTypeOK
        BY DEF OfficeInv
  <2>2. \A c \in OfficeCalls : office[c] \in OfficeRows
        BY <2>1 DEF OfficeTypes
  <2>3. QED BY <2>1, <2>2 DEF OfficeTypes, OfficeRows, DealGhosts, DealTypeOK
<1>4. QED BY <1>1, <1>2, <1>3, DealAlways, PTL DEF DealSpec

\* A school is charged for what it used and for what was agreed with it, however
\* many events, calls and billing passes overlap (usage_metering.py, deals.py,
\* billing.py generate_due_invoices).
THEOREM ChargesAreSound == UsageSpec /\ DealSpec => []ChargesSound
BY UsageIsCounted, DealsDoStand, PTL DEF ChargesSound
=============================================================================
