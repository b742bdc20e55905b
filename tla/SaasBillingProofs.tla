-------------------------- MODULE SaasBillingProofs --------------------------
(***************************************************************************)
(* What the billing engine keeps true for every length of a cycle, every   *)
(* price, any number of subscriptions and any scenario of handlers.        *)
(***************************************************************************)
EXTENDS SaasBilling, SumTheorems, TLAPS

-----------------------------------------------------------------------------
(* Periods.  The walk of generate_due_invoices from a next invoice date.   *)

\* The starts the walk visits from n on, with m the catch-up limit.
Walk(n, m, t) == {p \in n .. t : (p - n) % PeriodLen = 0 /\ p < n + m * PeriodLen}

LEMMA WholePeriods ==
    ASSUME NEW x \in Nat, x % PeriodLen = 0
    PROVE  \E k \in Nat : x = k * PeriodLen
<1>1. PeriodLen \in Nat \ {0}
      BY ConstantsAssumption
<1>2. x = PeriodLen * (x \div PeriodLen) + (x % PeriodLen) /\ x \div PeriodLen \in Nat
      BY <1>1
<1>3. x = (x \div PeriodLen) * PeriodLen
      BY <1>1, <1>2
<1>4. QED BY <1>2, <1>3

LEMMA PeriodsDivide ==
    ASSUME NEW k \in Nat
    PROVE  k * PeriodLen \in Nat /\ (k * PeriodLen) % PeriodLen = 0
<1>1. PeriodLen \in Nat \ {0}
      BY ConstantsAssumption
<1>2. QED BY <1>1

LEMMA PeriodsGrow ==
    ASSUME NEW k \in Nat, NEW m \in Nat
    PROVE  /\ k * PeriodLen < m * PeriodLen <=> k < m
           /\ k * PeriodLen = m * PeriodLen => k = m
           /\ (k + m) * PeriodLen = k * PeriodLen + m * PeriodLen
<1>1. PeriodLen \in Nat \ {0}
      BY ConstantsAssumption
<1>2. ASSUME NEW a \in Nat, NEW b \in Nat, a < b
      PROVE  a * PeriodLen < b * PeriodLen
      BY <1>1, <1>2
<1>3. k < m \/ k = m \/ m < k
      OBVIOUS
<1>4. (k + m) * PeriodLen = k * PeriodLen + m * PeriodLen
      BY <1>1
<1>5. k * PeriodLen \in Nat /\ m * PeriodLen \in Nat
      BY <1>1
<1>6. QED BY <1>2, <1>3, <1>4, <1>5

\* The walk is an unbroken run of periods, and as long as it has elements.
LEMMA WalkIsContiguous ==
    ASSUME NEW n \in Nat, NEW m \in Nat, NEW t \in Nat
    PROVE  /\ Cardinality(Walk(n, m, t)) \in Nat
           /\ Walk(n, m, t) =
                {n + k * PeriodLen : k \in 0 .. Cardinality(Walk(n, m, t)) - 1}
<1> DEFINE W == Walk(n, m, t)
           Ks == {k \in Nat : n + k * PeriodLen \in W}
<1>1. PeriodLen \in Nat \ {0}
      BY ConstantsAssumption
<1>2. \A k \in Nat : k \in Ks <=> n + k * PeriodLen <= t /\ k < m
  <2>1. TAKE k \in Nat
  <2>2. k * PeriodLen \in Nat /\ (k * PeriodLen) % PeriodLen = 0
        BY PeriodsDivide
  <2>3. k * PeriodLen < m * PeriodLen <=> k < m
        BY PeriodsGrow
  <2>4. (n + k * PeriodLen) - n = k * PeriodLen
        BY <2>2
  <2>5. m * PeriodLen \in Nat
        BY PeriodsDivide
  <2>6. QED BY <2>2, <2>3, <2>4, <2>5 DEF Walk
<1>3. m \in Nat \ Ks
      BY <1>2
<1>4. PICK K \in Nat \ Ks : \A j \in Nat \ Ks : ~ (<<j, K>> \in OpToRel(<, Nat))
  <2> DEFINE T == Nat \ Ks
  <2>1. T \subseteq Nat /\ T # {}
        BY <1>3
  <2> HIDE DEF T
  <2>2. \E x \in T : \A y \in T : ~ (<<y, x>> \in OpToRel(<, Nat))
        BY <2>1, NatLessThanWellFounded, WFMin
  <2>3. QED BY <2>2 DEF T
<1>5. \A j \in Nat : j < K => j \in Ks
      BY <1>4 DEF OpToRel
<1>6. \A j \in Nat : j \in Ks => j < K
  <2>1. SUFFICES ASSUME NEW j \in Nat, j \in Ks, ~(j < K) PROVE FALSE
        OBVIOUS
  <2>2. K < j
    <3>1. K \in Nat /\ K # j
          BY <1>4, <2>1
    <3>2. QED BY <2>1, <3>1
  <2>3. K * PeriodLen < j * PeriodLen
        BY <2>2, PeriodsGrow
  <2>4. n + j * PeriodLen <= t /\ j < m
        BY <2>1, <1>2
  <2>5. n + K * PeriodLen <= t /\ K < m
        BY <2>2, <2>3, <2>4, PeriodsDivide
  <2>6. QED BY <2>5, <1>2, <1>4
<1>7. W = {n + k * PeriodLen : k \in 0 .. K - 1}
  <2>1. ASSUME NEW p \in W PROVE \E k \in 0 .. K - 1 : p = n + k * PeriodLen
    <3>1. p \in n .. t /\ (p - n) % PeriodLen = 0
          BY DEF Walk
    <3>2. PICK k \in Nat : p - n = k * PeriodLen
          BY <3>1, WholePeriods
    <3>3. p = n + k * PeriodLen
          BY <3>1, <3>2
    <3>4. k \in Ks
          BY <3>3
    <3>5. QED BY <3>3, <3>4, <1>6
  <2>2. ASSUME NEW k \in 0 .. K - 1 PROVE n + k * PeriodLen \in W
        BY <1>5
  <2>3. QED BY <2>1, <2>2
<1>8. Cardinality(W) = K
  <2> DEFINE f == [k \in 1 .. K |-> n + (k - 1) * PeriodLen]
  <2>1. \A k \in 1 .. K : f[k] \in W
        BY <1>7
  <2>2. \A p \in W : \E k \in 1 .. K : f[k] = p
    <3>1. TAKE p \in W
    <3>2. PICK k \in 0 .. K - 1 : p = n + k * PeriodLen
          BY <1>7
    <3>3. k + 1 \in 1 .. K /\ (k + 1) - 1 = k
          OBVIOUS
    <3>4. QED BY <3>2, <3>3
  <2>3. \A a, b \in 1 .. K : f[a] = f[b] => a = b
    <3>1. SUFFICES ASSUME NEW a \in 1 .. K, NEW b \in 1 .. K, f[a] = f[b]
                   PROVE  a = b
          OBVIOUS
    <3>2. a - 1 \in Nat /\ b - 1 \in Nat
          OBVIOUS
    <3>3. (a - 1) * PeriodLen \in Nat /\ (b - 1) * PeriodLen \in Nat
          BY <3>2, PeriodsDivide
    <3>4. (a - 1) * PeriodLen = (b - 1) * PeriodLen
          BY <3>1, <3>3
    <3>5. a - 1 = b - 1
          BY <3>2, <3>4, PeriodsGrow
    <3>6. QED BY <3>5
  <2>4. f \in Bijection(1 .. K, W)
    <3>1. f \in [1 .. K -> W]
          BY <2>1
    <3> HIDE DEF f, W
    <3>2. QED BY <3>1, <2>2, <2>3 DEF Bijection, Injection, Surjection, IsInjective
  <2>5. ExistsBijection(1 .. K, W)
        BY <2>4 DEF ExistsBijection
  <2> HIDE DEF W
  <2>6. QED BY <2>5, FS_CountingElements
<1>9. QED BY <1>7, <1>8

-----------------------------------------------------------------------------
(* Types.                                                                  *)

LEMMA TypeInit == Init => TypeOK
<1> SUFFICES ASSUME Init PROVE TypeOK
    OBVIOUS
<1> USE ConstantsAssumption
<1>1. /\ tenant \in Tenant /\ subs \in [SubId -> Subscription \cup {Absent}]
      /\ subs[1].status # "absent" /\ 1 \in SubId
  <2>1. 1 \in SubId
        BY DEF SubId
  <2>2. CASE Registered
        BY <2>1, <2>2 DEF Registered, Tenant, TenantStatus, Reason, OptTime, NoTime,
              NewSub, Subscription, SubStatus, DunningStep, Absent
  <2>3. CASE CreatedByStaff
        BY <2>1, <2>3 DEF CreatedByStaff, Tenant, TenantStatus, Reason, OptTime,
              NoTime, NewSub, Subscription, SubStatus, DunningStep, Absent
  <2>4. QED BY <2>2, <2>3 DEF Init
<1>2. provision \in BOOLEAN
  <2>1. provision = FALSE
        BY DEF Init
  <2>2. QED BY <2>1
<1>3. /\ now \in 0 .. MaxNow /\ stage \in Stages /\ trial \in Trial
      /\ current = 1 /\ invoices \subseteq Invoice
      /\ config_version \in {0, 1} /\ ops \in Scenarios
      BY DEF Init, Stages, Trial, OptTime, NoTime
<1>4. QED BY <1>1, <1>2, <1>3 DEF TypeOK, Exists

\* A row there is is a row of the table.
LEMMA ExistingRows ==
    ASSUME TypeOK, NEW s \in SubId, Exists(s)
    PROVE  subs[s] \in Subscription
BY DEF TypeOK, Exists, Absent

LEMMA Durations ==
    /\ PeriodLen \in Nat \ {0} /\ Price \in Nat \ {0} /\ DueDays \in Nat
    /\ GraceDays \in Nat /\ UnlockDays \in Nat /\ TrialDays \in Nat
    /\ MaxCatchup \in Nat /\ MaxSubs \in Nat /\ MaxNow \in Nat
BY ConstantsAssumption

LEMMA NewRows ==
    ASSUME TypeOK
    PROVE  /\ now \in Nat
           /\ \A s \in SubId, start \in Nat : NewInvoice(s, start) \in Invoice
           /\ \A status \in SubStatus, nia \in OptTime, auto \in BOOLEAN :
                 NewSub(status, nia, auto) \in Subscription
<1>1. now \in Nat
      BY Durations DEF TypeOK
<1>2. QED BY <1>1, Durations DEF NewInvoice, Invoice, InvoiceStatus, NewSub,
             Subscription, DunningStep, OptTime, NoTime

\* What the walk adds, and where it leaves the next invoice date.
LEMMA WalkOfCurrent ==
    ASSUME TypeOK, InvoiceDue
    PROVE  /\ subs[current].nia \in Nat
           /\ DuePeriods(current) = Walk(subs[current].nia, MaxCatchup, now)
           /\ Cardinality(DuePeriods(current)) \in Nat
           /\ DuePeriods(current) = {subs[current].nia + k * PeriodLen :
                 k \in 0 .. Cardinality(DuePeriods(current)) - 1}
           /\ NextPeriodAfter(current) = subs[current].nia
                 + Cardinality(DuePeriods(current)) * PeriodLen
           /\ NextPeriodAfter(current) \in Nat
<1>1. subs[current].nia \in Nat
      BY ExistingRows DEF InvoiceDue, TypeOK, Subscription, OptTime
<1>2. DuePeriods(current) = Walk(subs[current].nia, MaxCatchup, now)
      BY DEF DuePeriods, Walk
<1>3. /\ Cardinality(DuePeriods(current)) \in Nat
      /\ DuePeriods(current) = {subs[current].nia + k * PeriodLen :
            k \in 0 .. Cardinality(DuePeriods(current)) - 1}
  <2>1. now \in Nat /\ MaxCatchup \in Nat
        BY NewRows, Durations
  <2> DEFINE n == subs[current].nia
  <2>2. n \in Nat
        BY <1>1
  <2> HIDE DEF n
  <2>3. /\ Cardinality(Walk(n, MaxCatchup, now)) \in Nat
        /\ Walk(n, MaxCatchup, now) = {n + k * PeriodLen :
              k \in 0 .. Cardinality(Walk(n, MaxCatchup, now)) - 1}
        BY <2>1, <2>2, WalkIsContiguous
  <2>4. DuePeriods(current) = Walk(n, MaxCatchup, now)
        BY <1>2 DEF n
  <2>5. /\ Cardinality(DuePeriods(current)) \in Nat
        /\ DuePeriods(current) = {n + k * PeriodLen :
              k \in 0 .. Cardinality(DuePeriods(current)) - 1}
        BY <2>3, <2>4
  <2>6. QED BY <2>5 DEF n
<1>4. QED
  <2> DEFINE C == Cardinality(DuePeriods(current))
  <2>1. C \in Nat /\ NextPeriodAfter(current) = subs[current].nia + PeriodLen * C
        BY <1>3 DEF NextPeriodAfter
  <2> HIDE DEF C
  <2>2. /\ NextPeriodAfter(current) = subs[current].nia + C * PeriodLen
        /\ NextPeriodAfter(current) \in Nat
        BY <2>1, <1>1, Durations
  <2>3. QED BY <1>1, <1>2, <1>3, <2>2 DEF C

LEMMA AdvanceTypes ==
    ASSUME TypeOK, NEW s \in SubId, Exists(s), AdvanceDunning(s)
    PROVE  /\ tenant' \in Tenant
           /\ subs' \in [SubId -> Subscription \cup {Absent}]
           /\ \A q \in SubId : Exists(q)' <=> Exists(q)
           /\ invoices' \subseteq Invoice
           /\ config_version' \in {0, 1}
<1>1. subs[s] \in Subscription
      BY ExistingRows
<1>2. now + GraceDays \in OptTime
      BY NewRows, Durations DEF OptTime
<1>3. CASE EnterPastDue(s)
  <2> DEFINE row == [subs[s] EXCEPT !.status = "past_due", !.dunning = "past_due",
                                    !.grace = now + GraceDays]
  <2>1. row \in Subscription
        BY <1>1, <1>2 DEF Subscription, SubStatus, DunningStep
  <2>2. subs' = [subs EXCEPT ![s] = row]
        BY <1>3 DEF EnterPastDue, TypeOK
  <2>3. \A i \in Invoice : [i EXCEPT !.status = "past_due"] \in Invoice
        BY DEF Invoice, InvoiceStatus
  <2>4. invoices' \subseteq Invoice
        BY <1>3, <2>3 DEF EnterPastDue, TypeOK
  <2>5. row.status # "absent"
        BY <1>1 DEF Subscription
  <2> HIDE DEF row
  <2>6. QED BY <1>3, <2>1, <2>2, <2>4, <2>5, ExistingRows DEF EnterPastDue, TypeOK, Exists
<1>4. CASE EnterGrace(s)
  <2> DEFINE row == [subs[s] EXCEPT !.dunning = "grace",
                       !.grace = IF @ = NoTime THEN now + GraceDays ELSE @]
  <2>1. row \in Subscription /\ row.status = subs[s].status
        BY <1>1, <1>2 DEF Subscription, DunningStep
  <2>2. subs' = [subs EXCEPT ![s] = row]
        BY <1>4 DEF EnterGrace, TypeOK
  <2> HIDE DEF row
  <2>3. QED BY <1>4, <2>1, <2>2 DEF EnterGrace, TypeOK, Exists
<1>5. CASE SuspendForDunning(s)
  <2> DEFINE row == [subs[s] EXCEPT !.dunning = "suspended", !.status = "past_due"]
  <2>1. row \in Subscription /\ row.status # "absent"
        BY <1>1 DEF Subscription, DunningStep, SubStatus
  <2>2. subs' = [subs EXCEPT ![s] = row]
        BY <1>5 DEF SuspendForDunning, TypeOK
  <2>3. tenant' \in Tenant
        BY <1>5 DEF SuspendForDunning, TypeOK, Tenant, TenantStatus, Reason
  <2>4. config_version' \in {0, 1}
        BY <1>5 DEF SuspendForDunning, BumpConfig, TypeOK
  <2>5. invoices' \subseteq Invoice
        BY <1>5 DEF SuspendForDunning, TypeOK
  <2> HIDE DEF row
  <2>6. QED BY <2>1, <2>2, <2>3, <2>4, <2>5 DEF TypeOK, Exists
<1>6. QED BY <1>3, <1>4, <1>5 DEF AdvanceDunning

LEMMA RowWritten ==
    ASSUME TypeOK, NEW s \in SubId, NEW row \in Subscription,
           subs' = [subs EXCEPT ![s] = row]
    PROVE  /\ subs' \in [SubId -> Subscription \cup {Absent}]
           /\ \A q \in SubId : Exists(q) => Exists(q)'
           /\ Exists(s)'
BY DEF TypeOK, Exists, Subscription, SubStatus

LEMMA PublishedTypes ==
    ASSUME TypeOK, NEW b \in BOOLEAN, BumpConfig \/ BumpConfigIf(b)
                                   \/ UNCHANGED config_version
    PROVE  config_version' \in {0, 1}
BY DEF TypeOK, BumpConfig, BumpConfigIf

LEMMA WorkerTypes ==
    ASSUME TypeOK, Worker
    PROVE  TypeOK'
<1>1. subs[current] \in Subscription /\ current \in SubId
      BY ExistingRows DEF TypeOK
<1>2. CASE TrialPass
  <2>1. trial' \in Trial
        BY <1>2 DEF TrialPass, ExpireTrial, TypeOK, Trial
  <2>2. tenant' \in Tenant
        BY <1>2 DEF TrialPass, ExpireTrial, RestrictAfterTrial, TypeOK, Tenant,
                    TenantStatus, Reason
  <2>3. config_version' \in {0, 1}
        BY <1>2, PublishedTypes DEF TrialPass, ExpireTrial, RestrictAfterTrial
  <2>4. /\ subs' \in [SubId -> Subscription \cup {Absent}]
        /\ Exists(current)'
    <3> DEFINE row == [subs[current] EXCEPT !.status = "cancelled"]
    <3>1. row \in Subscription
          BY <1>1 DEF Subscription, SubStatus
    <3>2. current' = current
          BY <1>2 DEF TrialPass, Goto
    <3>3. CASE subs' = subs
          BY <3>2, <3>3 DEF TypeOK, Exists
    <3>4. CASE subs' = [subs EXCEPT ![current].status = "cancelled"]
      <4>1. subs' = [subs EXCEPT ![current] = row]
            BY <3>4, <1>1 DEF TypeOK
      <4> HIDE DEF row
      <4>2. QED BY <4>1, <3>1, <3>2, <1>1, RowWritten DEF Exists
    <3>5. QED BY <1>2, <3>3, <3>4 DEF TrialPass, ExpireTrial, CancelTrialingSub
  <2>5. QED BY <1>2, <2>1, <2>2, <2>3, <2>4 DEF TrialPass, Goto, TypeOK, Stages
<1>3. CASE GeneratePass
  <2>1. CASE InvoiceDue /\ GenerateDueInvoices
    <3> DEFINE row == [subs[current] EXCEPT !.nia = NextPeriodAfter(current)]
    <3>1. NextPeriodAfter(current) \in Nat /\ DuePeriods(current) \subseteq Nat
      <4>1. \A p \in DuePeriods(current) : p \in subs[current].nia .. now
            BY DEF DuePeriods
      <4>2. QED BY <2>1, <4>1, WalkOfCurrent
    <3>2. row \in Subscription
          BY <1>1, <3>1 DEF Subscription, OptTime
    <3>3. subs' = [subs EXCEPT ![current] = row]
          BY <2>1, <1>1 DEF GenerateDueInvoices, TypeOK
    <3>4. invoices' \subseteq Invoice
          BY <2>1, <3>1, <1>1, NewRows DEF GenerateDueInvoices, TypeOK
    <3> HIDE DEF row
    <3>5. /\ subs' \in [SubId -> Subscription \cup {Absent}]
          /\ Exists(current)' /\ current' = current
          BY <1>1, <3>2, <3>3, RowWritten, <1>3 DEF GeneratePass, Goto, Exists
    <3>6. QED BY <1>3, <3>4, <3>5 DEF GeneratePass, Goto, TypeOK, Stages
  <2>2. CASE UNCHANGED <<invoices, subs>>
        BY <1>3, <2>2 DEF GeneratePass, Goto, TypeOK, Stages, Exists
  <2>3. QED BY <1>3, <2>1, <2>2 DEF GeneratePass
<1>4. CASE UnsubscribedPass
  <2>1. tenant' \in Tenant
        BY <1>4 DEF UnsubscribedPass, TypeOK, Tenant, TenantStatus, Reason
  <2>2. config_version' \in {0, 1}
        BY <1>4, PublishedTypes DEF UnsubscribedPass, BumpConfigIf, TypeOK
  <2>3. QED BY <1>4, <2>1, <2>2 DEF UnsubscribedPass, Goto, TypeOK, Stages, Exists
<1>5. ASSUME NEW others \in BOOLEAN, CourtesyPass(others) PROVE TypeOK'
  <2>1. tenant' \in Tenant
    <3>1. /\ tenant \in Tenant /\ NoTime \in OptTime /\ "" \in Reason
          /\ "suspended" \in TenantStatus /\ ReasonAfterCourtesy \in Reason
          BY DEF TypeOK, OptTime, ReasonAfterCourtesy, Reason, TenantStatus
    <3>2. CASE tenant' = [status |-> "suspended", courtesy |-> NoTime,
                          reason |-> ReasonAfterCourtesy]
          BY <3>1, <3>2 DEF Tenant
    <3>3. CASE tenant' = [tenant EXCEPT !.courtesy = NoTime,
                           !.reason = IF @ \in {"billing_dunning",
                                                "billing_grace_expired",
                                                "courtesy_unlock_expired"}
                                        THEN "" ELSE @]
          BY <3>1, <3>3 DEF Tenant
    <3>4. CASE tenant' = tenant
          BY <3>1, <3>4
    <3>5. QED BY <1>5, <3>2, <3>3, <3>4 DEF CourtesyPass
  <2>2. config_version' \in {0, 1}
        BY <1>5, PublishedTypes DEF CourtesyPass
  <2>3. QED BY <1>5, <2>1, <2>2 DEF CourtesyPass, Goto, TypeOK, Stages, Exists
<1>6. CASE DunningPass
  <2>1. CASE DunningEligible /\ AdvanceDunning(current)
        BY <1>1, <1>6, <2>1, AdvanceTypes DEF DunningPass, Goto, TypeOK, Stages, Exists
  <2>2. CASE UNCHANGED <<subs, invoices, tenant, config_version>>
        BY <1>6, <2>2 DEF DunningPass, Goto, TypeOK, Stages, Exists
  <2>3. QED BY <1>6, <2>1, <2>2 DEF DunningPass
<1>7. QED BY <1>2, <1>3, <1>4, <1>5, <1>6 DEF Worker

LEMMA PaymentTypes ==
    ASSUME TypeOK, NEW i \in invoices, NEW amount \in 1 .. Price,
           PayInvoice(i, amount)
    PROVE  TypeOK'
<1>1. i \in Invoice
      BY DEF TypeOK
<1>2. Credited(i, amount) \in Invoice
  <2>1. i.paid \in 0 .. Price /\ amount <= Price - i.paid
        BY <1>1 DEF Invoice, PayInvoice, Payable
  <2>2. i.paid + amount \in 0 .. Price
        BY <2>1, Durations
  <2>3. QED BY <1>1, <2>2 DEF Credited, Invoice, InvoiceStatus
<1>3. invoices' \subseteq Invoice
      BY <1>2 DEF PayInvoice, TypeOK
<1>4. tenant' \in Tenant
      BY DEF PayInvoice, TypeOK, Tenant, TenantStatus, Reason
<1>5. config_version' \in {0, 1}
      BY PublishedTypes DEF PayInvoice, BumpConfigIf, TypeOK
<1>6. /\ subs' \in [SubId -> Subscription \cup {Absent}]
      /\ Exists(current)'
  <2>1. i.sub \in SubId /\ current' = current
        BY <1>1 DEF Invoice, PayInvoice
  <2> DEFINE row == [subs[i.sub] EXCEPT !.status = "active", !.dunning = "none",
                                        !.grace = NoTime]
  <2>2. CASE subs' = subs
        BY <2>1, <2>2 DEF TypeOK, Exists
  <2>3. CASE subs' = [subs EXCEPT ![i.sub].status = "active",
                         ![i.sub].dunning = "none", ![i.sub].grace = NoTime]
    <3>1. row \in Subscription
      <4>1. subs[i.sub] \in Subscription \cup {Absent}
            BY <2>1 DEF TypeOK
      <4>2. Absent \in [status : {"absent"}, dunning : DunningStep, grace : OptTime,
                        nia : OptTime, auto : BOOLEAN]
            BY DEF Absent, DunningStep, OptTime, NoTime
      <4>3. "active" \in SubStatus /\ "none" \in DunningStep /\ NoTime \in OptTime
            BY DEF SubStatus, DunningStep, OptTime
      <4>4. QED BY <4>1, <4>2, <4>3 DEF Subscription
    <3>2. subs' = [subs EXCEPT ![i.sub] = row]
          BY <2>3, <2>1 DEF TypeOK
    <3> HIDE DEF row
    <3>3. QED BY <2>1, <3>1, <3>2, RowWritten DEF TypeOK, Exists
  <2>4. QED BY <2>2, <2>3 DEF PayInvoice
<1>7. QED BY <1>3, <1>4, <1>5, <1>6 DEF PayInvoice, Handler, Called, TypeOK

LEMMA SubscriptionTypes ==
    ASSUME TypeOK, SubscriptionHandlers
    PROVE  TypeOK'
<1>1. ASSUME NEW s \in SubId, CreateInvoice(s) PROVE TypeOK'
  <2> DEFINE start == IF subs[s].nia = NoTime THEN now ELSE subs[s].nia
             row == [subs[s] EXCEPT !.nia = start + PeriodLen]
  <2>1. subs[s] \in Subscription
        BY <1>1, ExistingRows DEF CreateInvoice
  <2>2. start \in Nat
        BY <2>1, NewRows DEF Subscription, OptTime
  <2>3. NewInvoice(s, start) \in Invoice /\ row \in Subscription
        BY <2>1, <2>2, NewRows, Durations DEF Subscription, OptTime
  <2>4. subs' = [subs EXCEPT ![s] = row]
        BY <1>1 DEF CreateInvoice, TypeOK
  <2>5. invoices' = invoices \cup {NewInvoice(s, start)}
        BY <1>1 DEF CreateInvoice
  <2> HIDE DEF row, start
  <2>6. QED BY <1>1, <2>3, <2>4, <2>5, RowWritten DEF CreateInvoice, Handler, Called, TypeOK, Exists
<1>2. ASSUME NEW s \in SubId, ChangeSubscription(s) PROVE TypeOK'
  <2>1. now + PeriodLen \in OptTime /\ "past_due" \in SubStatus
        BY NewRows, Durations DEF OptTime, SubStatus
  <2>2. NewSub("past_due", now + PeriodLen, FALSE) \in Subscription
        BY <2>1, NewRows
  <2>3. NewInvoice(s, now) \in Invoice
        BY NewRows
  <2>4. QED BY <1>2, <2>2, <2>3, RowWritten
               DEF ChangeSubscription, Handler, Called, TypeOK, Exists
<1>3. ASSUME NEW s \in SubId, CreateSubscription(s) PROVE TypeOK'
  <2>1. NewSub("active", NoTime, FALSE) \in Subscription
        BY NewRows DEF OptTime, SubStatus
  <2>2. QED BY <1>3, <2>1, RowWritten, PublishedTypes
               DEF CreateSubscription, Handler, Called, TypeOK, Exists
<1>4. ASSUME NEW s \in SubId, NEW st \in GivenStatus, NEW step \in GivenStep,
             UpdateSubscriptionStatus(s, st, step)
      PROVE  TypeOK'
  <2> DEFINE row == IF st = "active"
                      THEN [subs[s] EXCEPT !.status = st, !.dunning = "none", !.grace = NoTime]
                      ELSE [subs[s] EXCEPT !.status = Given(@, st), !.dunning = Given(@, step)]
  <2>1. subs[s] \in Subscription
        BY <1>4, ExistingRows DEF UpdateSubscriptionStatus
  <2>2. row \in Subscription
    <3>1. CASE st = "active"
          BY <2>1, <3>1 DEF Subscription, SubStatus, DunningStep, OptTime
    <3>2. CASE st # "active"
      <4>1. Given(subs[s].status, st) \in SubStatus
            BY <2>1 DEF Given, GivenStatus, Unchanged, Subscription, SubStatus
      <4>2. Given(subs[s].dunning, step) \in DunningStep
            BY <2>1 DEF Given, GivenStep, Unchanged, Subscription
      <4>3. QED BY <2>1, <3>2, <4>1, <4>2 DEF Subscription
    <3>3. QED BY <3>1, <3>2
  <2>3. subs' = [subs EXCEPT ![s] = row]
        BY <1>4 DEF UpdateSubscriptionStatus, TypeOK
  <2> HIDE DEF row
  <2>4. QED BY <1>4, <2>2, <2>3, RowWritten
               DEF UpdateSubscriptionStatus, Handler, Called, TypeOK, Exists
<1>5. ASSUME NEW s \in SubId, DunningAdvance(s) PROVE TypeOK'
      BY <1>5, AdvanceTypes DEF DunningAdvance, Handler, Called, TypeOK, Exists
<1>6. QED BY <1>1, <1>2, <1>3, <1>4, <1>5 DEF SubscriptionHandlers

LEMMA CurrentStatusWritten ==
    ASSUME TypeOK, NEW status \in SubStatus, current' = current,
           \/ UNCHANGED subs
           \/ subs' = [subs EXCEPT ![current].status = status]
    PROVE  /\ subs' \in [SubId -> Subscription \cup {Absent}]
           /\ Exists(current)'
<1> DEFINE row == [subs[current] EXCEPT !.status = status]
<1>1. subs[current] \in Subscription /\ current \in SubId
      BY ExistingRows DEF TypeOK
<1>2. row \in Subscription
      BY <1>1 DEF Subscription
<1>3. CASE UNCHANGED subs
      BY <1>3 DEF TypeOK, Exists
<1>4. CASE subs' = [subs EXCEPT ![current].status = status]
  <2>1. subs' = [subs EXCEPT ![current] = row]
        BY <1>1, <1>4 DEF TypeOK
  <2> HIDE DEF row
  <2>2. QED BY <1>1, <1>2, <2>1, RowWritten DEF Exists
<1>5. QED BY <1>3, <1>4

LEMMA TrialTypes ==
    ASSUME TypeOK, NEW ends \in {now, now + TrialDays}, UpdateTrial(ends)
    PROVE  TypeOK'
<1>1. ends \in OptTime /\ now + TrialDays \in OptTime
      BY NewRows, Durations DEF OptTime
<1>2. Granted \in Trial
      BY <1>1 DEF Granted, Trial, TypeOK
<1>3. trial' \in Trial
  <2>1. CASE MoveTrialEnd(ends)
        BY <1>1, <1>2, <2>1 DEF MoveTrialEnd, Trial
  <2>2. CASE EnableTrial(ends)
    <3>1. (IF ends > now THEN "active" ELSE Granted.status)
             \in {"none", "active", "expired", "disabled"}
          BY <1>2 DEF Trial
    <3>2. QED BY <1>1, <2>2, <3>1 DEF EnableTrial, Trial
  <2>3. CASE DisableTrial(ends)
        BY <1>1, <2>3 DEF DisableTrial, Trial
  <2>4. QED BY <2>1, <2>2, <2>3 DEF UpdateTrial
<1>4. tenant' \in Tenant
  <2>1. tenant \in Tenant
        BY DEF TypeOK
  <2>2. \/ tenant' = tenant
        \/ tenant' = [tenant EXCEPT !.status = "active", !.reason = ""]
        \/ tenant' = [tenant EXCEPT !.status = "restricted", !.reason = "trial_manual"]
        BY DEF UpdateTrial, MoveTrialEnd, EnableTrial, DisableTrial
  <2>3. QED BY <2>1, <2>2 DEF Tenant, TenantStatus, Reason
<1>5. /\ subs' \in [SubId -> Subscription \cup {Absent}]
      /\ Exists(current)'
  <2>1. \/ UNCHANGED subs
        \/ subs' = [subs EXCEPT ![current].status = "trialing"]
        \/ subs' = [subs EXCEPT ![current].status = "cancelled"]
        BY DEF UpdateTrial, MoveTrialEnd, EnableTrial, DisableTrial
  <2>2. "trialing" \in SubStatus /\ "cancelled" \in SubStatus
        BY DEF SubStatus
  <2>3. QED BY <2>1, <2>2, CurrentStatusWritten DEF UpdateTrial
<1>6. config_version' \in {0, 1}
      BY PublishedTypes DEF UpdateTrial
<1>7. QED BY <1>3, <1>4, <1>5, <1>6 DEF UpdateTrial, Handler, Called, TypeOK

LEMMA TenantTypes ==
    ASSUME TypeOK, TenantHandlers
    PROVE  TypeOK'
<1>1. CASE CourtesyUnlock
  <2> DEFINE row == [subs[current] EXCEPT !.dunning = "none", !.grace = NoTime]
  <2>1. current \in SubId /\ subs[current] \in Subscription
        BY ExistingRows DEF TypeOK
  <2>2. row \in Subscription
        BY <2>1 DEF Subscription, DunningStep, OptTime
  <2>3. subs' = [subs EXCEPT ![current] = row]
        BY <1>1, <2>1 DEF CourtesyUnlock, TypeOK
  <2>4. now + UnlockDays \in OptTime
        BY NewRows, Durations DEF OptTime
  <2>5. tenant' \in Tenant
        BY <1>1, <2>4 DEF CourtesyUnlock, TypeOK, Tenant, TenantStatus
  <2>6. config_version' \in {0, 1}
        BY <1>1, PublishedTypes DEF CourtesyUnlock
  <2> HIDE DEF row
  <2>7. QED BY <1>1, <2>1, <2>2, <2>3, <2>5, <2>6, RowWritten
               DEF CourtesyUnlock, Handler, Called, TypeOK, Exists
<1>2. ASSUME NEW st \in TenantStatus, ChangeStatus(st) PROVE TypeOK'
  <2>1. tenant' \in Tenant
        BY <1>2 DEF ChangeStatus, TypeOK, Tenant, Reason
  <2>2. config_version' \in {0, 1}
        BY <1>2, PublishedTypes DEF ChangeStatus
  <2>3. QED BY <1>2, <2>1, <2>2 DEF ChangeStatus, Handler, Called, TypeOK, Exists
<1>3. CASE Blacklist
  <2>1. tenant' \in Tenant
        BY <1>3 DEF Blacklist, TypeOK, Tenant, TenantStatus, Reason
  <2>2. config_version' \in {0, 1}
        BY <1>3, PublishedTypes DEF Blacklist
  <2>3. "cancelled_blacklisted" \in SubStatus
        BY DEF SubStatus
  <2>4. QED BY <1>3, <2>1, <2>2, <2>3, CurrentStatusWritten DEF Blacklist, Handler, Called, TypeOK
<1>4. CASE ActivateTenant
  <2>1. now + TrialDays \in OptTime
        BY NewRows, Durations DEF OptTime
  <2>2. trial' \in Trial
        BY <1>4, <2>1 DEF ActivateTenant, Granted, TypeOK, Trial
  <2>3. tenant' \in Tenant
        BY <1>4 DEF ActivateTenant, TypeOK, Tenant, TenantStatus, Reason
  <2>4. QED BY <1>4, <2>2, <2>3 DEF ActivateTenant, TypeOK, Exists
<1>5. CASE ProvisionTenant
  <2>1. tenant' \in Tenant
        BY <1>5 DEF ProvisionTenant, AwaitInitialization, TypeOK, Tenant, TenantStatus, Reason
  <2>2. provision' \in BOOLEAN
        BY <1>5 DEF ProvisionTenant, TypeOK
  <2>3. config_version' \in {0, 1}
        BY <1>5, PublishedTypes DEF ProvisionTenant
  <2>4. QED BY <1>5, <2>1, <2>2, <2>3 DEF ProvisionTenant, Called, TypeOK, Exists
<1>6. CASE ProvisioningResult
  <2>1. now + TrialDays \in OptTime
        BY NewRows, Durations DEF OptTime
  <2>2. Granted \in Trial
        BY <2>1 DEF Granted, TypeOK, Trial
  <2>3. trial' \in Trial
        BY <1>6, <2>2 DEF ProvisioningResult, TypeOK
  <2>4. tenant' \in Tenant
        BY <1>6 DEF ProvisioningResult, AwaitInitialization, TypeOK, Tenant, TenantStatus, Reason
  <2>5. QED BY <1>6, <2>3, <2>4 DEF ProvisioningResult, Handler, Called, TypeOK, Exists
<1>7. QED BY <1>1, <1>2, <1>3, <1>4, <1>5, <1>6, TrialTypes DEF TenantHandlers

LEMMA TypeNext == TypeOK /\ [Next]_vars => TypeOK'
<1> SUFFICES ASSUME TypeOK, [Next]_vars PROVE TypeOK'
    OBVIOUS
<1>1. CASE Tick
  <2>1. now' \in 0 .. MaxNow
        BY <1>1, NewRows, Durations DEF Tick, TypeOK
  <2>2. QED BY <1>1, <2>1 DEF Tick, TypeOK, Exists
<1>2. CASE Payments
      BY <1>2, PaymentTypes DEF Payments
<1>3. CASE UNCHANGED vars
      BY <1>3 DEF vars, TypeOK, Exists
<1>4. QED BY <1>1, <1>2, <1>3, WorkerTypes, SubscriptionTypes, TenantTypes DEF Next

\* Every row of the engine keeps its type, the next invoice date that the
\* catch-up of generate_due_invoices computes included.
THEOREM BillingTypes == Spec => []TypeOK
<1>1. QED BY TypeInit, TypeNext, PTL DEF Spec

-----------------------------------------------------------------------------
(* Publishing.                                                             *)

LEMMA BumpChanges ==
    ASSUME TypeOK
    PROVE  /\ BumpConfig => config_version' # config_version
           /\ \A b \in BOOLEAN : BumpConfigIf(b) /\ b => config_version' # config_version
BY DEF TypeOK, BumpConfig, BumpConfigIf

LEMMA PublishedStep ==
    ASSUME TypeOK, [Next]_vars, tenant'.status # tenant.status
    PROVE  config_version' # config_version \/ ReportedBySchool
<1>1. CASE Tick \/ UNCHANGED vars
      BY <1>1 DEF Tick, vars
<1>2. CASE TrialPass
      BY <1>2, BumpChanges DEF TrialPass, ExpireTrial, RestrictAfterTrial
<1>3. CASE GeneratePass
      BY <1>3 DEF GeneratePass
<1>4. CASE UnsubscribedPass
  <2>1. Unsubscribed
        BY <1>4 DEF UnsubscribedPass
  <2>2. QED BY <1>4, <2>1, BumpChanges DEF UnsubscribedPass
<1>5. ASSUME NEW others \in BOOLEAN, CourtesyPass(others)
      PROVE  config_version' # config_version
      BY <1>5, BumpChanges DEF CourtesyPass
<1>6. ASSUME NEW s \in SubId, AdvanceDunning(s)
      PROVE  config_version' # config_version
      BY <1>6, BumpChanges DEF AdvanceDunning, EnterPastDue, EnterGrace, SuspendForDunning
<1>7. CASE DunningPass
      BY <1>6, <1>7 DEF DunningPass, TypeOK
<1>8. CASE Payments
  <2>1. PICK i \in invoices, amount \in 1 .. Price : PayInvoice(i, amount)
        BY <1>8 DEF Payments
  <2>2. QED BY <2>1, BumpChanges DEF PayInvoice
<1>9. CASE SubscriptionHandlers
      BY <1>6, <1>9 DEF SubscriptionHandlers, CreateInvoice, ChangeSubscription,
         CreateSubscription, UpdateSubscriptionStatus, DunningAdvance
<1>10. CASE CourtesyUnlock \/ Blacklist \/ ProvisionTenant
       BY <1>10, BumpChanges DEF CourtesyUnlock, Blacklist, ProvisionTenant
<1>11. ASSUME NEW st \in TenantStatus, ChangeStatus(st)
       PROVE  config_version' # config_version
       BY <1>11, BumpChanges DEF ChangeStatus
<1>12. ASSUME NEW ends \in {now, now + TrialDays}, UpdateTrial(ends)
       PROVE  config_version' # config_version
       BY <1>12, BumpChanges DEF UpdateTrial
<1>13. CASE ActivateTenant \/ ProvisioningResult
       BY <1>13 DEF ReportedBySchool
<1>14. QED BY <1>1, <1>2, <1>3, <1>4, <1>5, <1>7, <1>8, <1>9, <1>10, <1>11, <1>12, <1>13
              DEF Next, Worker, TenantHandlers

\* Whoever changes the access of a school - a pass of the worker, a payment, the
\* console - bumps the config version in the same transaction; only what the
\* school server itself reports, an activation or the end of an initialization,
\* bumps none.
THEOREM AccessIsPublished == Spec => AccessChangesArePublished
<1>1. TypeOK /\ [Next]_vars =>
        [tenant'.status # tenant.status
           => config_version' # config_version \/ ReportedBySchool]_vars
      BY PublishedStep
<1>2. QED BY <1>1, BillingTypes, PTL DEF Spec, AccessChangesArePublished

-----------------------------------------------------------------------------
(* No period is forgiven.  The inductive invariant counts in periods: the  *)
(* next invoice date lies a whole number of periods after every invoice,   *)
(* and each of the periods in between is billed.                           *)

Billed(rows, s, p) == \E i \in rows : i.sub = s /\ i.start = p

\* From start on, m periods up to the next invoice date nia, all billed.
BilledUpTo(rows, s, start, nia) ==
    \E m \in Nat : /\ m > 0 /\ nia = start + m * PeriodLen
                   /\ \A k \in 0 .. m - 1 : Billed(rows, s, start + k * PeriodLen)

Contiguous(rows, table) ==
    \A i \in rows : BilledUpTo(rows, i.sub, i.start, table[i.sub].nia)

OncePerPeriod(rows) ==
    \A i, j \in rows : i.sub = j.sub /\ i.start = j.start => i = j

HaveSubs(rows, table) == \A i \in rows : table[i.sub].status # "absent"

BillingInv ==
    /\ Contiguous(invoices, subs)
    /\ OncePerPeriod(invoices)
    /\ HaveSubs(invoices, subs)

\* A step that bills nothing: the rows keep their periods, the subscriptions
\* that have rows their next invoice dates.
LEMMA NothingBilled ==
    ASSUME BillingInv,
           \A i \in invoices' : \E j \in invoices : j.sub = i.sub /\ j.start = i.start,
           \A j \in invoices : \E i \in invoices' : j.sub = i.sub /\ j.start = i.start,
           \A j \in invoices : subs'[j.sub].nia = subs[j.sub].nia
                               /\ subs'[j.sub].status # "absent",
           OncePerPeriod(invoices')
    PROVE  BillingInv'
<1>1. \A s, p : Billed(invoices, s, p) <=> Billed(invoices', s, p)
      BY DEF Billed
<1>2. ASSUME NEW i \in invoices'
      PROVE  /\ BilledUpTo(invoices', i.sub, i.start, subs'[i.sub].nia)
             /\ subs'[i.sub].status # "absent"
  <2>1. PICK j \in invoices : j.sub = i.sub /\ j.start = i.start
        OBVIOUS
  <2>2. BilledUpTo(invoices, j.sub, j.start, subs[j.sub].nia)
        BY DEF BillingInv, Contiguous
  <2>3. /\ BilledUpTo(invoices, i.sub, i.start, subs'[i.sub].nia)
        /\ subs'[i.sub].status # "absent"
        BY <2>1, <2>2
  <2>4. QED BY <2>3, <1>1 DEF BilledUpTo
<1>3. Contiguous(invoices', subs')
      BY <1>2 DEF Contiguous
<1>4. HaveSubs(invoices', subs')
      BY <1>2 DEF HaveSubs
<1>5. QED BY <1>3, <1>4 DEF BillingInv

\* A step that bills c periods of subscription s from n on.
BillsFrom(s, n, c) ==
    /\ \A i \in invoices : i.sub = s => subs[s].nia = n
    /\ subs'[s].nia = n + c * PeriodLen /\ subs'[s].status # "absent"
    /\ \A q \in SubId : q # s => subs'[q] = subs[q]
    /\ invoices \subseteq invoices'
    /\ \A i \in invoices' : i \notin invoices =>
         /\ i.sub = s /\ ~Billed(invoices, s, i.start)
         /\ \E k \in 0 .. c - 1 : i.start = n + k * PeriodLen
    /\ \A k \in 0 .. c - 1 : Billed(invoices', s, n + k * PeriodLen)
    /\ \A i, j \in invoices' : i \notin invoices /\ j \notin invoices
                              /\ i.start = j.start => i = j

LEMMA PeriodsBilled ==
    ASSUME TypeOK, BillingInv, NEW s \in SubId, NEW n \in Nat, NEW c \in Nat,
           BillsFrom(s, n, c)
    PROVE  BillingInv'
<1>1. \A q, p : Billed(invoices, q, p) => Billed(invoices', q, p)
      BY DEF BillsFrom, Billed
<1>2. HaveSubs(invoices', subs')
      BY DEF BillsFrom, HaveSubs, BillingInv, TypeOK, Invoice
<1>3. OncePerPeriod(invoices')
      BY DEF BillsFrom, OncePerPeriod, BillingInv, Billed
<1>4. ASSUME NEW i \in invoices
      PROVE  BilledUpTo(invoices', i.sub, i.start, subs'[i.sub].nia)
  <2>1. i \in Invoice /\ i.start \in Nat
        BY DEF TypeOK, Invoice
  <2>2. PICK m \in Nat : /\ m > 0 /\ subs[i.sub].nia = i.start + m * PeriodLen
                        /\ \A k \in 0 .. m - 1 : Billed(invoices, i.sub, i.start + k * PeriodLen)
        BY DEF BillingInv, Contiguous, BilledUpTo
  <2>3. CASE i.sub # s
        BY <2>1, <2>2, <2>3, <1>1 DEF BillsFrom, Invoice, BilledUpTo
  <2>4. CASE i.sub = s
    <3>1. n = i.start + m * PeriodLen
          BY <2>2, <2>4 DEF BillsFrom
    <3>2. /\ m * PeriodLen \in Nat /\ c * PeriodLen \in Nat
          /\ (m + c) * PeriodLen = m * PeriodLen + c * PeriodLen
          BY PeriodsDivide, PeriodsGrow
    <3>3. subs'[s].nia = i.start + (m + c) * PeriodLen
          BY <2>1, <3>1, <3>2 DEF BillsFrom
    <3>4. ASSUME NEW k \in 0 .. (m + c) - 1
          PROVE  Billed(invoices', s, i.start + k * PeriodLen)
      <4>1. CASE k < m
            BY <2>2, <2>4, <4>1, <1>1
      <4>2. CASE m <= k
        <5>1. k - m \in 0 .. c - 1 /\ k = m + (k - m)
              BY <4>2
        <5>2. k * PeriodLen = m * PeriodLen + (k - m) * PeriodLen
              BY <5>1, PeriodsGrow
        <5>3. (k - m) * PeriodLen \in Nat
              BY <5>1, PeriodsDivide
        <5>4. i.start + k * PeriodLen = n + (k - m) * PeriodLen
              BY <2>1, <3>1, <3>2, <5>2, <5>3
        <5>5. QED BY <5>1, <5>4 DEF BillsFrom
      <4>3. QED BY <4>1, <4>2
    <3>5. m + c \in Nat /\ m + c > 0
          BY <2>2
    <3>6. QED BY <2>4, <3>3, <3>4, <3>5 DEF BilledUpTo
  <2>5. QED BY <2>3, <2>4
<1>5. ASSUME NEW i \in invoices', i \notin invoices
      PROVE  BilledUpTo(invoices', i.sub, i.start, subs'[i.sub].nia)
  <2>1. PICK j \in 0 .. c - 1 : i.sub = s /\ i.start = n + j * PeriodLen
        BY <1>5 DEF BillsFrom
  <2>2. c - j \in Nat /\ c - j > 0 /\ j \in Nat /\ c = j + (c - j)
        BY <2>1
  <2>3. /\ c * PeriodLen = j * PeriodLen + (c - j) * PeriodLen
        /\ j * PeriodLen \in Nat /\ (c - j) * PeriodLen \in Nat
    <3>1. (j + (c - j)) * PeriodLen = j * PeriodLen + (c - j) * PeriodLen
          BY <2>2, PeriodsGrow
    <3>2. QED BY <2>2, <3>1, PeriodsDivide
  <2>4. subs'[s].nia = i.start + (c - j) * PeriodLen
        BY <2>1, <2>3 DEF BillsFrom
  <2>5. ASSUME NEW k \in 0 .. (c - j) - 1
        PROVE  Billed(invoices', s, i.start + k * PeriodLen)
    <3>1. j + k \in 0 .. c - 1 /\ k \in Nat
          BY <2>2
    <3>2. (j + k) * PeriodLen = j * PeriodLen + k * PeriodLen /\ k * PeriodLen \in Nat
          BY <2>2, <3>1, PeriodsGrow, PeriodsDivide
    <3>3. i.start + k * PeriodLen = n + (j + k) * PeriodLen
          BY <2>1, <2>3, <3>2
    <3>4. QED BY <3>1, <3>3 DEF BillsFrom
  <2>6. QED BY <2>1, <2>2, <2>4, <2>5 DEF BilledUpTo
<1>6. Contiguous(invoices', subs')
      BY <1>4, <1>5 DEF Contiguous
<1>7. QED BY <1>2, <1>3, <1>6 DEF BillingInv

\* The rows stay and every subscription that has some keeps its date.
LEMMA RowsStay ==
    ASSUME TypeOK, BillingInv, UNCHANGED invoices,
           \A q \in SubId : Exists(q) => subs'[q].nia = subs[q].nia
                                      /\ subs'[q].status # "absent"
    PROVE  BillingInv'
BY NothingBilled DEF BillingInv, HaveSubs, Exists, TypeOK, Invoice

\* A row is settled, or its status moves: its period stays.
LEMMA RowReplaced ==
    ASSUME TypeOK, BillingInv, NEW i \in invoices, NEW j,
           j.sub = i.sub, j.start = i.start, invoices' = (invoices \ {i}) \cup {j},
           \A q \in SubId : Exists(q) => subs'[q].nia = subs[q].nia
                                      /\ subs'[q].status # "absent"
    PROVE  BillingInv'
<1>1. OncePerPeriod(invoices')
      BY DEF BillingInv, OncePerPeriod
<1>2. \A k \in invoices : subs'[k.sub].nia = subs[k.sub].nia
                          /\ subs'[k.sub].status # "absent"
      BY DEF BillingInv, HaveSubs, Exists, TypeOK, Invoice
<1>3. \A k \in invoices' : \E l \in invoices : l.sub = k.sub /\ l.start = k.start
      OBVIOUS
<1>4. \A l \in invoices : \E k \in invoices' : l.sub = k.sub /\ l.start = k.start
      OBVIOUS
<1>5. QED BY <1>1, <1>2, <1>3, <1>4, NothingBilled

LEMMA AdvanceBilling ==
    ASSUME TypeOK, BillingInv, NEW s \in SubId, Exists(s), AdvanceDunning(s)
    PROVE  BillingInv'
<1>1. \A q \in SubId : Exists(q) => subs'[q].nia = subs[q].nia
                                /\ subs'[q].status # "absent"
  <2>1. CASE EnterPastDue(s)
        BY <2>1 DEF EnterPastDue, TypeOK, Exists
  <2>2. CASE EnterGrace(s)
        BY <2>2 DEF EnterGrace, TypeOK, Exists
  <2>3. CASE SuspendForDunning(s)
        BY <2>3 DEF SuspendForDunning, TypeOK, Exists
  <2>4. QED BY <2>1, <2>2, <2>3 DEF AdvanceDunning
<1>2. CASE UNCHANGED invoices
      BY <1>1, <1>2, RowsStay
<1>3. CASE EnterPastDue(s)
  <2> DEFINE Due(i) == IF i.sub = s /\ i.status = "open"
                         THEN [i EXCEPT !.status = "past_due"] ELSE i
  <2>1. invoices' = {Due(i) : i \in invoices}
        BY <1>3 DEF EnterPastDue
  <2>2. \A i \in invoices : Due(i).sub = i.sub /\ Due(i).start = i.start
        BY DEF TypeOK, Invoice
  <2> HIDE DEF Due
  <2>3. OncePerPeriod(invoices')
        BY <2>1, <2>2 DEF BillingInv, OncePerPeriod
  <2>4. \A k \in invoices : subs'[k.sub].nia = subs[k.sub].nia
                            /\ subs'[k.sub].status # "absent"
        BY <1>1 DEF BillingInv, HaveSubs, Exists, TypeOK, Invoice
  <2>5. QED BY <2>1, <2>2, <2>3, <2>4, NothingBilled
<1>4. QED BY <1>2, <1>3 DEF AdvanceDunning, EnterGrace, SuspendForDunning

LEMMA WalkBilling ==
    ASSUME TypeOK, BillingInv, InvoiceDue, GenerateDueInvoices, current' = current
    PROVE  BillingInv'
<1> DEFINE n == subs[current].nia
           c == Cardinality(DuePeriods(current))
<1>1. /\ n \in Nat /\ c \in Nat /\ current \in SubId /\ Exists(current)
      /\ DuePeriods(current) = {n + k * PeriodLen : k \in 0 .. c - 1}
      /\ NextPeriodAfter(current) = n + c * PeriodLen
      BY WalkOfCurrent DEF TypeOK
<1>2. /\ subs'[current].nia = n + c * PeriodLen /\ subs'[current].status # "absent"
      /\ \A q \in SubId : q # current => subs'[q] = subs[q]
      BY <1>1 DEF GenerateDueInvoices, TypeOK, Exists
<1>3. \A p \in DuePeriods(current) :
         Invoiced(current, p) <=> Billed(invoices, current, p)
      BY DEF Invoiced, Billed
<1>4. invoices' = invoices \cup {NewInvoice(current, p) :
                     p \in {q \in DuePeriods(current) : ~Invoiced(current, q)}}
      BY DEF GenerateDueInvoices
<1>5. \A p : NewInvoice(current, p).sub = current /\ NewInvoice(current, p).start = p
      BY DEF NewInvoice
<1>6. \A i \in invoices' : i \notin invoices =>
         \E p \in DuePeriods(current) : i = NewInvoice(current, p)
                                       /\ ~Billed(invoices, current, p)
      BY <1>3, <1>4
<1>7. \A k \in 0 .. c - 1 : Billed(invoices', current, n + k * PeriodLen)
  <2>1. TAKE k \in 0 .. c - 1
  <2>2. n + k * PeriodLen \in DuePeriods(current)
        BY <1>1
  <2>3. QED BY <2>2, <1>3, <1>4, <1>5 DEF Billed
<1>8. \A i \in invoices' : i \notin invoices =>
         /\ i.sub = current /\ ~Billed(invoices, current, i.start)
         /\ \E k \in 0 .. c - 1 : i.start = n + k * PeriodLen
      BY <1>1, <1>5, <1>6
<1>9. \A i, j \in invoices' : i \notin invoices /\ j \notin invoices
                              /\ i.start = j.start => i = j
      BY <1>5, <1>6
<1>10. invoices \subseteq invoices'
       BY <1>4
<1>11. \A i \in invoices : i.sub = current => subs[current].nia = n
       OBVIOUS
<1> HIDE DEF n, c
<1>12. BillsFrom(current, n, c)
       BY <1>2, <1>7, <1>8, <1>9, <1>10, <1>11 DEF BillsFrom
<1>13. QED BY <1>1, <1>12, PeriodsBilled

\* One more invoice, for the period that starts at n.
LEMMA OneBilled ==
    ASSUME TypeOK, BillingInv, NEW s \in SubId, NEW n \in Nat,
           \A i \in invoices : i.sub = s => subs[s].nia = n,
           ~Invoiced(s, n), invoices' = invoices \cup {NewInvoice(s, n)},
           subs'[s].nia = n + PeriodLen, subs'[s].status # "absent",
           \A q \in SubId : q # s => subs'[q] = subs[q]
    PROVE  BillingInv'
<1>1. 1 * PeriodLen = PeriodLen /\ n + 0 * PeriodLen = n /\ 0 .. 1 - 1 = {0}
      BY Durations
<1>2. NewInvoice(s, n).sub = s /\ NewInvoice(s, n).start = n
      BY DEF NewInvoice
<1>3. ~Billed(invoices, s, n)
      BY DEF Billed, Invoiced
<1>4. Billed(invoices', s, n)
      BY <1>2 DEF Billed
<1>5. \A k \in 0 .. 1 - 1 : Billed(invoices', s, n + k * PeriodLen)
      BY <1>1, <1>4
<1>6. \A i \in invoices' : i \notin invoices =>
         /\ i.sub = s /\ ~Billed(invoices, s, i.start)
         /\ \E k \in 0 .. 1 - 1 : i.start = n + k * PeriodLen
      BY <1>1, <1>2, <1>3
<1>7. subs'[s].nia = n + 1 * PeriodLen
      BY <1>1
<1>8. /\ invoices \subseteq invoices'
      /\ \A i, j \in invoices' : i \notin invoices /\ j \notin invoices
                               /\ i.start = j.start => i = j
      OBVIOUS
<1>9. BillsFrom(s, n, 1)
      BY <1>5, <1>6, <1>7, <1>8 DEF BillsFrom
<1>10. QED BY <1>9, PeriodsBilled

LEMMA StatusOfCurrent ==
    ASSUME TypeOK, NEW status, status # "absent",
           \/ UNCHANGED subs
           \/ subs' = [subs EXCEPT ![current].status = status]
    PROVE  \A q \in SubId : Exists(q) => subs'[q].nia = subs[q].nia
                                      /\ subs'[q].status # "absent"
<1>1. CASE UNCHANGED subs
      BY <1>1 DEF Exists
<1>2. CASE subs' = [subs EXCEPT ![current].status = status]
      BY <1>2 DEF TypeOK, Exists
<1>3. QED BY <1>1, <1>2

LEMMA BillingStep ==
    ASSUME TypeOK, BillingInv, [Next]_vars
    PROVE  BillingInv'
<1> DEFINE Same == \A q \in SubId : Exists(q) => subs'[q].nia = subs[q].nia
                                             /\ subs'[q].status # "absent"
<1>1. current \in SubId /\ Exists(current)
      BY DEF TypeOK
<1>2. CASE Tick \/ UNCHANGED vars \/ UnsubscribedPass \/ (\E o \in BOOLEAN : CourtesyPass(o))
  <2>1. UNCHANGED <<subs, invoices>>
        BY <1>2 DEF Tick, vars, UnsubscribedPass, CourtesyPass
  <2>2. QED BY <2>1, RowsStay DEF Exists
<1>3. CASE TrialPass
  <2>1. Same
    <3>1. \/ UNCHANGED subs
          \/ subs' = [subs EXCEPT ![current].status = "cancelled"]
          BY <1>3 DEF TrialPass, ExpireTrial, CancelTrialingSub
    <3>2. QED BY <3>1, StatusOfCurrent
  <2>2. QED BY <1>3, <2>1, RowsStay DEF TrialPass
<1>4. CASE GeneratePass
  <2>1. CASE InvoiceDue /\ GenerateDueInvoices
        BY <1>4, <2>1, WalkBilling DEF GeneratePass, Goto
  <2>2. CASE UNCHANGED <<invoices, subs>>
        BY <2>2, RowsStay DEF Exists
  <2>3. QED BY <1>4, <2>1, <2>2 DEF GeneratePass
<1>5. CASE DunningPass
  <2>1. CASE DunningEligible /\ AdvanceDunning(current)
        BY <1>1, <2>1, AdvanceBilling
  <2>2. CASE UNCHANGED <<subs, invoices, tenant, config_version>>
        BY <2>2, RowsStay DEF Exists
  <2>3. QED BY <1>5, <2>1, <2>2 DEF DunningPass
<1>6. ASSUME NEW i \in invoices, NEW amount \in 1 .. Price, PayInvoice(i, amount)
      PROVE  BillingInv'
  <2>1. Credited(i, amount).sub = i.sub /\ Credited(i, amount).start = i.start
        BY DEF Credited, TypeOK, Invoice
  <2>2. Same
        BY <1>6 DEF PayInvoice, TypeOK, Invoice, Exists
  <2>3. QED BY <1>6, <2>1, <2>2, RowReplaced DEF PayInvoice
<1>7. ASSUME NEW s \in SubId, CreateInvoice(s) PROVE BillingInv'
  <2> DEFINE start == IF subs[s].nia = NoTime THEN now ELSE subs[s].nia
  <2>1. subs[s] \in Subscription
        BY <1>7, ExistingRows DEF CreateInvoice
  <2>2. start \in Nat
        BY <2>1, NewRows DEF Subscription, OptTime
  <2>3. \A i \in invoices : i.sub = s => subs[s].nia = start
    <3>1. SUFFICES ASSUME NEW i \in invoices, i.sub = s PROVE subs[s].nia # NoTime
          OBVIOUS
    <3>2. PICK m \in Nat : m > 0 /\ subs[s].nia = i.start + m * PeriodLen
          BY <3>1 DEF BillingInv, Contiguous, BilledUpTo
    <3>3. i.start \in Nat /\ m * PeriodLen \in Nat
          BY PeriodsDivide DEF TypeOK, Invoice
    <3>4. QED BY <3>2, <3>3 DEF NoTime
  <2>4. /\ ~Invoiced(s, start) /\ invoices' = invoices \cup {NewInvoice(s, start)}
        /\ subs' = [subs EXCEPT ![s].nia = start + PeriodLen]
        BY <1>7 DEF CreateInvoice
  <2> HIDE DEF start
  <2>5. /\ subs'[s].nia = start + PeriodLen /\ subs'[s].status # "absent"
        /\ \A q \in SubId : q # s => subs'[q] = subs[q]
        BY <2>1, <2>4, <1>7 DEF TypeOK, CreateInvoice, Exists, Subscription
  <2>6. QED BY <2>2, <2>3, <2>4, <2>5, OneBilled
<1>8. ASSUME NEW s \in SubId, ChangeSubscription(s) PROVE BillingInv'
  <2>1. \A i \in invoices : i.sub # s
        BY <1>8 DEF ChangeSubscription, Fresh, Exists, BillingInv, HaveSubs
  <2>2. now \in Nat /\ ~Invoiced(s, now)
        BY <2>1, NewRows DEF Invoiced
  <2>3. /\ subs'[s].nia = now + PeriodLen /\ subs'[s].status # "absent"
        /\ \A q \in SubId : q # s => subs'[q] = subs[q]
        /\ invoices' = invoices \cup {NewInvoice(s, now)}
        BY <1>8 DEF ChangeSubscription, NewSub, TypeOK
  <2>4. QED BY <2>1, <2>2, <2>3, OneBilled
<1>9. ASSUME NEW s \in SubId, CreateSubscription(s) PROVE BillingInv'
      BY <1>9, RowsStay DEF CreateSubscription, Fresh, Exists, TypeOK
<1>10. ASSUME NEW s \in SubId, NEW st \in GivenStatus, NEW step \in GivenStep,
              UpdateSubscriptionStatus(s, st, step)
       PROVE  BillingInv'
  <2>1. Same
        BY <1>10 DEF UpdateSubscriptionStatus, Given, GivenStatus, Unchanged, TypeOK, Exists
  <2>2. QED BY <1>10, <2>1, RowsStay DEF UpdateSubscriptionStatus
<1>11. ASSUME NEW s \in SubId, DunningAdvance(s) PROVE BillingInv'
       BY <1>11, AdvanceBilling DEF DunningAdvance
<1>12. CASE CourtesyUnlock
  <2>1. Same
        BY <1>1, <1>12 DEF CourtesyUnlock, TypeOK, Exists
  <2>2. QED BY <1>12, <2>1, RowsStay DEF CourtesyUnlock
<1>13. CASE Blacklist
  <2>1. Same
        BY <1>1, <1>13 DEF Blacklist, TypeOK, Exists
  <2>2. QED BY <1>13, <2>1, RowsStay DEF Blacklist
<1>14. CASE \/ ActivateTenant \/ ProvisionTenant \/ ProvisioningResult
            \/ \E st \in TenantStatus : ChangeStatus(st)
       BY <1>14, RowsStay DEF ActivateTenant, ProvisionTenant, ProvisioningResult,
          ChangeStatus, Exists
<1>15. ASSUME NEW ends \in {now, now + TrialDays}, UpdateTrial(ends) PROVE BillingInv'
  <2>1. Same
    <3>1. \/ UNCHANGED subs
          \/ subs' = [subs EXCEPT ![current].status = "cancelled"]
          \/ subs' = [subs EXCEPT ![current].status = "trialing"]
          BY <1>15 DEF UpdateTrial, MoveTrialEnd, EnableTrial, DisableTrial
    <3>2. QED BY <3>1, StatusOfCurrent
  <2>2. QED BY <1>15, <2>1, RowsStay DEF UpdateTrial
<1>16. QED BY <1>2, <1>3, <1>4, <1>5, <1>6, <1>7, <1>8, <1>9, <1>10, <1>11, <1>12,
              <1>13, <1>14, <1>15
           DEF Next, Worker, Payments, SubscriptionHandlers, TenantHandlers

LEMMA NothingForgiven == TypeOK /\ BillingInv => NoPeriodForgiven
<1> SUFFICES ASSUME TypeOK, BillingInv PROVE NoPeriodForgiven
    OBVIOUS
<1>1. ASSUME NEW i \in invoices, NEW p \in i.start .. subs[i.sub].nia - 1,
             (p - i.start) % PeriodLen = 0
      PROVE  Invoiced(i.sub, p)
  <2>1. i.start \in Nat
        BY DEF TypeOK, Invoice
  <2>2. PICK m \in Nat : /\ m > 0 /\ subs[i.sub].nia = i.start + m * PeriodLen
                        /\ \A k \in 0 .. m - 1 : Billed(invoices, i.sub, i.start + k * PeriodLen)
        BY DEF BillingInv, Contiguous, BilledUpTo
  <2>3. m * PeriodLen \in Nat
        BY PeriodsDivide
  <2>4. p - i.start \in Nat /\ p - i.start < m * PeriodLen
        BY <2>1, <2>2, <2>3
  <2>5. PICK k \in Nat : p - i.start = k * PeriodLen
        BY <1>1, <2>4, WholePeriods
  <2>6. k < m
        BY <2>4, <2>5, PeriodsGrow
  <2>7. p = i.start + k * PeriodLen
        BY <2>1, <2>4, <2>5
  <2>8. QED BY <2>2, <2>6, <2>7 DEF Billed, Invoiced
<1>2. \A i, j \in invoices : j.sub = i.sub /\ j.start = i.start => j = i
      BY DEF BillingInv, OncePerPeriod
<1>3. QED BY <1>1, <1>2 DEF NoPeriodForgiven

-----------------------------------------------------------------------------
(* What dunning suspends for.  A payment lifts the suspension of a school, *)
(* or clears the subscription, when nothing is left to pay; a school that  *)
(* a courtesy unlock let in while it kept the old reason is suspended for  *)
(* it again only when it is unpaid, or its subscription unresolved, and    *)
(* the second implies the first unless staff set the status by hand.       *)

\* Subscriptions are numbered as they come and the newest is the current one;
\* only the one that registration made is ever on trial, unless staff write
\* that status by hand.
NewestIsCurrent ==
    /\ \A s \in SubId : Exists(s) <=> s <= current
    /\ \A s \in SubId : subs[s].auto => s = 1
    /\ "substatus" \notin ops =>
          \A s \in SubId : subs[s].status = "trialing" => s = 1

CurrentResolved ==
    CurrentIn({"active", "trialing"}) /\ subs[current].dunning = "none"

DunningReason == tenant.reason = "billing_dunning"

Owing ==
    "dunning" \notin ops =>
      /\ DunningReason => tenant.status \in {"active", "suspended"}
      /\ "courtesy" \notin ops =>
            /\ tenant.courtesy = NoTime
            /\ DunningReason => tenant.status = "suspended"
      /\ "substatus" \notin ops =>
            (DunningReason => UnpaidOf(current) # {} \/ CurrentResolved)
      /\ ~ByHand => (DunningSuspended => Unpaid # {})

OwingInv == BillingInv /\ NewestIsCurrent /\ Owing

LEMMA OwingInit == Init => BillingInv /\ NewestIsCurrent /\ Owing
<1> SUFFICES ASSUME Init PROVE BillingInv /\ NewestIsCurrent /\ Owing
    OBVIOUS
<1>1. BillingInv
      BY DEF Init, BillingInv, Contiguous, OncePerPeriod, HaveSubs
<1>2. \A s \in SubId : /\ subs[s].status = "absent" <=> s # 1
                       /\ subs[s].auto \/ subs[s].status = "trialing" => s = 1
  <2>1. CASE Registered
        BY <2>1 DEF Registered, NewSub, Absent
  <2>2. CASE CreatedByStaff
        BY <2>2 DEF CreatedByStaff, NewSub, Absent
  <2>3. QED BY <2>1, <2>2 DEF Init
<1>3. NewestIsCurrent
      BY <1>2, Durations DEF NewestIsCurrent, Init, Exists, SubId
<1>4. tenant.reason = "" /\ tenant.courtesy = NoTime
  <2>1. CASE Registered
        BY <2>1 DEF Registered
  <2>2. CASE CreatedByStaff
        BY <2>2 DEF CreatedByStaff
  <2>3. QED BY <2>1, <2>2 DEF Init
<1>5. Owing
      BY <1>4 DEF Owing, DunningReason, DunningSuspended
<1>6. QED BY <1>1, <1>3, <1>5

\* A subscription on trial is the only one: all that is unpaid is its own.
LEMMA TrialIsAlone ==
    ASSUME TypeOK, BillingInv, NewestIsCurrent, "substatus" \notin ops,
           CurrentIn({"trialing"})
    PROVE  Unpaid = UnpaidOf(current)
<1>1. current = 1
      BY DEF CurrentIn, NewestIsCurrent, TypeOK
<1>2. \A i \in invoices : i.sub = 1
  <2>1. TAKE i \in invoices
  <2>2. i.sub \in SubId /\ Exists(i.sub)
        BY DEF BillingInv, HaveSubs, Exists, TypeOK, Invoice
  <2>3. i.sub <= 1
        BY <1>1, <2>2 DEF NewestIsCurrent
  <2>4. QED BY <2>2, <2>3, Durations DEF SubId
<1>3. QED BY <1>1, <1>2 DEF Unpaid, UnpaidOf

\* The next subscription follows the current one.
LEMMA FreshIsNext ==
    ASSUME TypeOK, NewestIsCurrent, NEW s \in SubId, Fresh(s)
    PROVE  /\ s # 1 /\ s # current
           /\ \A q \in SubId : q <= s <=> q = s \/ Exists(q)
<1>1. s \in Nat /\ current \in Nat /\ ~Exists(s) /\ 1 \in SubId
      BY Durations DEF Fresh, SubId, TypeOK
<1>2. current < s
      BY <1>1 DEF NewestIsCurrent, TypeOK
<1>3. \A q \in SubId : q < s => Exists(q)
      BY DEF Fresh
<1>4. \A q \in SubId : Exists(q) => q < s
      BY <1>1, <1>2 DEF NewestIsCurrent, SubId
<1>5. s # 1
      BY <1>1, <1>2, Durations DEF TypeOK, SubId
<1>6. QED BY <1>1, <1>2, <1>3, <1>4, <1>5 DEF SubId

\* Rows that are rewritten keep what NewestIsCurrent says.
LEMMA NewestStays ==
    ASSUME NewestIsCurrent, current' = current, ops' = ops,
           \A q \in SubId : /\ subs'[q].status # "absent" <=> Exists(q)
                            /\ subs'[q].auto = subs[q].auto
                            /\ "substatus" \notin ops /\ subs'[q].status = "trialing" =>
                                 subs[q].auto \/ subs[q].status = "trialing"
    PROVE  NewestIsCurrent'
BY DEF NewestIsCurrent, Exists

LEMMA NewestAdvance ==
    ASSUME TypeOK, NewestIsCurrent, NEW s \in SubId, Exists(s), AdvanceDunning(s),
           current' = current, ops' = ops
    PROVE  NewestIsCurrent'
<1>1. CASE EnterPastDue(s)
      BY <1>1, NewestStays DEF EnterPastDue, TypeOK, Exists
<1>2. CASE EnterGrace(s)
      BY <1>2, NewestStays DEF EnterGrace, TypeOK, Exists
<1>3. CASE SuspendForDunning(s)
      BY <1>3, NewestStays DEF SuspendForDunning, TypeOK, Exists
<1>4. QED BY <1>1, <1>2, <1>3 DEF AdvanceDunning

LEMMA NewestStep ==
    ASSUME TypeOK, BillingInv, NewestIsCurrent, [Next]_vars
    PROVE  NewestIsCurrent'
<1>1. current \in SubId /\ Exists(current)
      BY DEF TypeOK
<1>0. ops' = ops
      BY DEF Next, vars, Tick, Worker, TrialPass, GeneratePass, UnsubscribedPass,
         CourtesyPass, DunningPass, Goto, Payments, PayInvoice, SubscriptionHandlers,
         CreateInvoice, ChangeSubscription, CreateSubscription, UpdateSubscriptionStatus,
         DunningAdvance, TenantHandlers, CourtesyUnlock, Blacklist, ActivateTenant,
         ProvisionTenant, ProvisioningResult, ChangeStatus, UpdateTrial, Handler, Called
<1>2. CASE UNCHANGED <<subs, current>>
      BY <1>2, <1>0, NewestStays DEF Exists
<1>3. CASE TrialPass
  <2>1. current' = current
        BY <1>3 DEF TrialPass, Goto
  <2>2. CASE UNCHANGED subs
        BY <1>2, <2>1, <2>2
  <2>3. CASE subs' = [subs EXCEPT ![current].status = "cancelled"]
        BY <1>1, <2>1, <2>3, <1>0, NewestStays DEF TypeOK, Exists
  <2>4. QED BY <1>3, <2>2, <2>3 DEF TrialPass, ExpireTrial, CancelTrialingSub
<1>4. CASE GeneratePass
  <2>1. current' = current
        BY <1>4 DEF GeneratePass, Goto
  <2>2. CASE UNCHANGED subs
        BY <1>2, <2>1, <2>2
  <2>3. CASE GenerateDueInvoices
        BY <1>1, <2>1, <2>3, <1>0, NewestStays DEF GenerateDueInvoices, TypeOK, Exists
  <2>4. QED BY <1>4, <2>2, <2>3 DEF GeneratePass
<1>5. CASE DunningPass
      BY <1>1, <1>2, <1>5, <1>0, NewestAdvance DEF DunningPass, Goto
<1>6. ASSUME NEW i \in invoices, NEW amount \in 1 .. Price, PayInvoice(i, amount)
      PROVE  NewestIsCurrent'
  <2>1. i.sub \in SubId /\ Exists(i.sub)
        BY DEF TypeOK, Invoice, BillingInv, HaveSubs, Exists
  <2>2. QED BY <1>6, <2>1, <1>0, NewestStays DEF PayInvoice, TypeOK, Exists
<1>7. ASSUME NEW s \in SubId, CreateInvoice(s) PROVE NewestIsCurrent'
      BY <1>7, <1>0, NewestStays DEF CreateInvoice, TypeOK, Exists
<1>8. ASSUME NEW s \in SubId, ChangeSubscription(s) \/ CreateSubscription(s)
      PROVE  NewestIsCurrent'
  <2>1. /\ s # 1 /\ s # current
        /\ \A q \in SubId : q <= s <=> q = s \/ Exists(q)
        BY <1>8, FreshIsNext DEF ChangeSubscription, CreateSubscription
  <2>2. /\ current' = s /\ \A q \in SubId : q # s => subs'[q] = subs[q]
        /\ ~subs'[s].auto /\ subs'[s].status \in {"past_due", "active"}
        BY <1>8 DEF ChangeSubscription, CreateSubscription, NewSub, TypeOK
  <2>3. QED BY <1>0, <2>1, <2>2 DEF NewestIsCurrent, Exists
<1>9. ASSUME NEW s \in SubId, NEW st \in GivenStatus, NEW step \in GivenStep,
             UpdateSubscriptionStatus(s, st, step)
      PROVE  NewestIsCurrent'
  <2>1. "substatus" \in ops /\ current' = current /\ Exists(s)
        BY <1>9 DEF UpdateSubscriptionStatus, Handler, Called
  <2>2. \A q \in SubId : /\ subs'[q].status # "absent" <=> Exists(q)
                         /\ subs'[q].auto = subs[q].auto
        BY <1>9, <2>1 DEF UpdateSubscriptionStatus, Given, GivenStatus, Unchanged, TypeOK, Exists
  <2>3. QED BY <1>0, <2>1, <2>2, NewestStays
<1>10. ASSUME NEW s \in SubId, DunningAdvance(s) PROVE NewestIsCurrent'
       BY <1>10, <1>0, NewestAdvance DEF DunningAdvance
<1>11. CASE CourtesyUnlock
       BY <1>1, <1>11, <1>0, NewestStays DEF CourtesyUnlock, TypeOK, Exists
<1>12. CASE Blacklist
       BY <1>1, <1>12, <1>0, NewestStays DEF Blacklist, TypeOK, Exists
<1>13. ASSUME NEW ends \in {now, now + TrialDays}, UpdateTrial(ends)
       PROVE  NewestIsCurrent'
  <2>1. current' = current
        BY <1>13 DEF UpdateTrial
  <2>2. CASE UNCHANGED subs
        BY <1>2, <2>1, <2>2
  <2>3. CASE subs[current].auto /\ subs' = [subs EXCEPT ![current].status = "trialing"]
        BY <1>1, <2>1, <2>3, <1>0, NewestStays DEF TypeOK, Exists
  <2>4. CASE subs' = [subs EXCEPT ![current].status = "cancelled"]
        BY <1>1, <2>1, <2>4, <1>0, NewestStays DEF TypeOK, Exists
  <2>5. QED BY <1>13, <2>2, <2>3, <2>4 DEF UpdateTrial, MoveTrialEnd, EnableTrial,
                                           DisableTrial
<1>14. QED BY <1>2, <1>3, <1>4, <1>5, <1>6, <1>7, <1>8, <1>9, <1>10, <1>11, <1>12, <1>13
           DEF Next, vars, Worker, Tick, UnsubscribedPass, CourtesyPass, Goto, Payments,
               SubscriptionHandlers, TenantHandlers, ActivateTenant, ChangeStatus,
               ProvisionTenant, ProvisioningResult

\* Nothing moves but the clock, or invoices are only added.
LEMMA OwingStays ==
    ASSUME Owing, UNCHANGED <<tenant, ops>>, current' = current,
           Unpaid \subseteq Unpaid', UnpaidOf(current) \subseteq UnpaidOf(current)',
           CurrentResolved => CurrentResolved'
    PROVE  Owing'
BY DEF Owing, DunningReason, ByHand, DunningSuspended

\* The reason is gone.
LEMMA OtherReason ==
    ASSUME Owing, UNCHANGED ops, ~DunningReason',
           tenant'.courtesy \in {tenant.courtesy, NoTime}
    PROVE  Owing'
BY DEF Owing, DunningReason, DunningSuspended

\* The current subscription owes something.
LEMMA CurrentOwes ==
    ASSUME Owing, UNCHANGED ops, tenant'.courtesy = tenant.courtesy,
           tenant' = tenant \/ tenant'.status = "suspended",
           UnpaidOf(current)' # {}
    PROVE  Owing'
<1>1. Unpaid' # {}
      BY DEF Unpaid, UnpaidOf
<1>2. QED BY <1>1 DEF Owing, DunningReason, DunningSuspended

LEMMA OwingTrialPass ==
    ASSUME TypeOK, BillingInv, NewestIsCurrent, Owing, TrialPass
    PROVE  Owing'
<1>1. UNCHANGED <<invoices, ops, current>>
      BY DEF TrialPass, Goto
<1>2. CASE UNCHANGED <<tenant, subs>>
      BY <1>1, <1>2, OwingStays DEF CurrentResolved, CurrentIn, Unpaid, UnpaidOf
<1>3. CASE ExpireTrial /\ tenant.status = "active"
      BY <1>1, <1>3, OtherReason DEF ExpireTrial, RestrictAfterTrial, DunningReason, TypeOK,
                                     Tenant
<1>4. CASE ExpireTrial /\ tenant.status # "active"
  <2>1. tenant' = tenant
        BY <1>4 DEF ExpireTrial, RestrictAfterTrial
  <2>2. CASE ~CurrentIn({"trialing"})
        BY <1>2, <1>4, <2>1, <2>2 DEF ExpireTrial, CancelTrialingSub
  <2>3. CASE CurrentIn({"trialing"})
    <3>1. "substatus" \notin ops => Unpaid = UnpaidOf(current)
          BY <2>3, TrialIsAlone
    <3>2. Unpaid' = Unpaid /\ UnpaidOf(current)' = UnpaidOf(current)
          BY <1>1 DEF Unpaid, UnpaidOf
    <3>3. QED BY <1>1, <1>4, <2>1, <3>1, <3>2
                 DEF Owing, DunningReason, DunningSuspended, ByHand
  <2>4. QED BY <2>2, <2>3
<1>5. QED BY <1>2, <1>3, <1>4 DEF TrialPass

LEMMA OwingCourtesyPass ==
    ASSUME TypeOK, Owing, NEW others \in BOOLEAN, CourtesyPass(others)
    PROVE  Owing'
<1>1. UNCHANGED <<subs, invoices, ops, current>>
      BY DEF CourtesyPass, Goto
<1>2. /\ Unpaid' = Unpaid /\ UnpaidOf(current)' = UnpaidOf(current)
      /\ CurrentResolved' = CurrentResolved
      BY <1>1 DEF Unpaid, UnpaidOf, CurrentResolved, CurrentIn
<1>3. CASE UNCHANGED tenant
      BY <1>1, <1>2, <1>3, OwingStays
<1>4. CASE tenant'.reason = "" /\ tenant'.courtesy = NoTime
      BY <1>1, <1>4, OtherReason DEF DunningReason
<1>5. CASE /\ CourtesyOver /\ ~BillingResolved
           /\ tenant' = [status |-> "suspended", courtesy |-> NoTime,
                         reason |-> ReasonAfterCourtesy]
  <2>1. DunningReason' => DunningReason
        BY <1>5 DEF DunningReason, ReasonAfterCourtesy
  <2>2. ASSUME "dunning" \notin ops, ~ByHand, DunningReason PROVE Unpaid # {}
    <3>1. CASE "courtesy" \notin ops
          BY <1>5, <2>2, <3>1 DEF Owing, CourtesyOver
    <3>2. CASE "substatus" \notin ops
      <4>1. UnpaidOf(current) # {} \/ CurrentResolved
            BY <2>2, <3>2 DEF Owing
      <4>2. UnpaidOf(current) # {} => Unpaid # {}
            BY DEF UnpaidOf
      <4>3. CurrentResolved => Unpaid # {}
            BY <1>5 DEF BillingResolved, CurrentResolved
      <4>4. QED BY <4>1, <4>2, <4>3
    <3>3. QED BY <2>2, <3>1, <3>2 DEF ByHand
  <2>3. tenant'.status = "suspended" /\ tenant'.courtesy = NoTime
        BY <1>5
  <2>4. QED BY <1>1, <1>2, <2>1, <2>2, <2>3 DEF Owing, ByHand, DunningReason, DunningSuspended
<1>6. CASE tenant' = [tenant EXCEPT !.courtesy = NoTime,
                       !.reason = IF @ \in {"billing_dunning",
                                            "billing_grace_expired",
                                            "courtesy_unlock_expired"}
                                    THEN "" ELSE @]
  <2>1. tenant'.courtesy = NoTime /\ tenant'.reason # "billing_dunning"
        BY <1>6 DEF TypeOK, Tenant
  <2>2. QED BY <1>1, <2>1, OtherReason DEF DunningReason
<1>7. QED BY <1>3, <1>5, <1>6 DEF CourtesyPass

LEMMA OwingDunningPass ==
    ASSUME TypeOK, Owing, DunningPass
    PROVE  Owing'
<1>1. UNCHANGED <<ops, current>>
      BY DEF DunningPass, Goto
<1>2. CASE UNCHANGED <<subs, invoices, tenant, config_version>>
      BY <1>1, <1>2, OwingStays DEF CurrentResolved, CurrentIn, Unpaid, UnpaidOf
<1>3. CASE DunningEligible /\ AdvanceDunning(current)
  <2>1. PICK i \in invoices : i.sub = current /\ i.status \in {"open", "past_due"}
        BY <1>3 DEF DunningEligible, Overdue
  <2>2. /\ tenant'.courtesy = tenant.courtesy
        /\ tenant' = tenant \/ tenant'.status = "suspended"
        BY <1>3 DEF AdvanceDunning, EnterPastDue, EnterGrace, SuspendForDunning, TypeOK, Tenant
  <2>3. \E j \in invoices' : j.sub = current /\ j.status \in {"open", "past_due"}
    <3>1. CASE UNCHANGED invoices
          BY <2>1, <3>1
    <3>2. CASE EnterPastDue(current)
      <4> DEFINE j == IF i.sub = current /\ i.status = "open"
                        THEN [i EXCEPT !.status = "past_due"] ELSE i
      <4>1. j \in invoices'
            BY <3>2 DEF EnterPastDue
      <4>2. j.sub = current /\ j.status = "past_due"
            BY <2>1 DEF TypeOK, Invoice
      <4>3. QED BY <4>1, <4>2
    <3>3. QED BY <1>3, <3>1, <3>2 DEF AdvanceDunning, EnterGrace, SuspendForDunning
  <2>4. UnpaidOf(current)' # {}
        BY <1>1, <2>3 DEF UnpaidOf, Unpaid, UnpaidStatus
  <2>5. QED BY <1>1, <2>2, <2>4, CurrentOwes
<1>4. QED BY <1>2, <1>3 DEF DunningPass

LEMMA OwingPayment ==
    ASSUME TypeOK, Owing, NEW i \in invoices, NEW amount \in 1 .. Price,
           PayInvoice(i, amount)
    PROVE  Owing'
<1> DEFINE j       == Credited(i, amount)
           settled == j.status = "paid"
           clears  == settled /\ LastOfSub(i)
           lifts   == settled /\ DunningSuspended /\ LastOfTenant(i)
<1>1. /\ invoices' = (invoices \ {i}) \cup {j} /\ UNCHANGED <<ops, current>>
      /\ clears => subs' = [subs EXCEPT ![i.sub].status = "active",
                             ![i.sub].dunning = "none", ![i.sub].grace = NoTime]
      /\ ~clears => subs' = subs
      /\ lifts => tenant' = [tenant EXCEPT !.status = "active", !.reason = ""]
      /\ ~lifts => tenant' = tenant
      BY DEF PayInvoice, Handler, Called
<1>2. j.sub = i.sub /\ (settled \/ j.status = "partially_paid") /\ i.sub \in SubId
      BY DEF Credited, TypeOK, Invoice
<1>3. \A k \in Unpaid : k # i => k \in Unpaid'
      BY <1>1 DEF Unpaid
<1>4. ~settled => j \in Unpaid'
      BY <1>1, <1>2 DEF Unpaid, UnpaidStatus
<1> HIDE DEF j
<1>5. CASE lifts
      BY <1>1, <1>5, OtherReason DEF DunningReason, TypeOK, Tenant
<1>6. CASE ~lifts
  <2>1. tenant' = tenant
        BY <1>1, <1>6
  <2>2. DunningSuspended /\ Unpaid # {} => Unpaid' # {}
    <3>1. SUFFICES ASSUME DunningSuspended, settled PROVE Unpaid' # {}
          BY <1>4
    <3>2. Unpaid \ {i} # {}
          BY <1>6, <3>1 DEF LastOfTenant
    <3>3. QED BY <3>2, <1>3
  <2>3. UnpaidOf(current) # {} \/ CurrentResolved
          => UnpaidOf(current)' # {} \/ CurrentResolved'
    <3>1. CASE i.sub # current
      <4>1. UnpaidOf(current) \subseteq UnpaidOf(current)'
            BY <1>1, <1>3, <3>1 DEF UnpaidOf
      <4>2. subs'[current] = subs[current]
            BY <1>1, <3>1 DEF TypeOK
      <4>3. QED BY <1>1, <4>1, <4>2 DEF CurrentResolved, CurrentIn
    <3>2. CASE i.sub = current /\ ~settled
      <4>1. j \in UnpaidOf(current)'
            BY <1>1, <1>2, <1>4, <3>2 DEF UnpaidOf
      <4>2. QED BY <4>1
    <3>3. CASE i.sub = current /\ clears
      <4>1. subs'[current].status = "active" /\ subs'[current].dunning = "none"
        <5>1. subs[current] \in Subscription /\ current \in SubId
              BY ExistingRows DEF TypeOK
        <5>2. QED BY <1>1, <3>3, <5>1 DEF TypeOK, Subscription
      <4>2. QED BY <1>1, <4>1 DEF CurrentResolved, CurrentIn
    <3>4. CASE i.sub = current /\ settled /\ ~clears
      <4>1. PICK k \in UnpaidOf(current) : k # i
            BY <3>4 DEF LastOfSub
      <4>2. k \in UnpaidOf(current)'
            BY <1>1, <1>3, <4>1 DEF UnpaidOf
      <4>3. QED BY <4>2
    <3>5. QED BY <3>1, <3>2, <3>3, <3>4
  <2>4. QED BY <1>1, <2>1, <2>2, <2>3 DEF Owing, ByHand, DunningReason, DunningSuspended
<1>7. QED BY <1>5, <1>6

LEMMA OwingHandlers ==
    ASSUME TypeOK, NewestIsCurrent, Owing, SubscriptionHandlers
    PROVE  Owing'
<1>1. ASSUME NEW s \in SubId, CreateInvoice(s) PROVE Owing'
  <2>1. /\ UNCHANGED <<tenant, ops, current>> /\ invoices \subseteq invoices'
        /\ subs'[current].status = subs[current].status
        /\ subs'[current].dunning = subs[current].dunning
        BY <1>1 DEF CreateInvoice, Handler, Called, TypeOK
  <2>2. QED BY <2>1, OwingStays DEF Unpaid, UnpaidOf, CurrentResolved, CurrentIn
<1>2. ASSUME NEW s \in SubId, ChangeSubscription(s) PROVE Owing'
  <2>1. NewInvoice(s, now) \in UnpaidOf(current)'
        BY <1>2 DEF ChangeSubscription, NewInvoice, UnpaidOf, Unpaid, UnpaidStatus
  <2>2. QED BY <1>2, <2>1, CurrentOwes DEF ChangeSubscription, Handler, Called
<1>3. ASSUME NEW s \in SubId, CreateSubscription(s) PROVE Owing'
  <2>1. CurrentResolved' /\ Unpaid' = Unpaid /\ UNCHANGED <<tenant, ops>>
        BY <1>3 DEF CreateSubscription, NewSub, Handler, Called, CurrentResolved, CurrentIn,
                    Unpaid, TypeOK
  <2>2. QED BY <2>1 DEF Owing, ByHand, DunningReason, DunningSuspended
<1>4. ASSUME NEW s \in SubId, NEW st \in GivenStatus, NEW step \in GivenStep,
             UpdateSubscriptionStatus(s, st, step)
      PROVE  Owing'
  <2>1. "substatus" \in ops /\ UNCHANGED <<tenant, invoices, ops>>
        BY <1>4 DEF UpdateSubscriptionStatus, Handler, Called
  <2>2. Unpaid' = Unpaid
        BY <2>1 DEF Unpaid
  <2>3. QED BY <2>1, <2>2 DEF Owing, ByHand, DunningReason, DunningSuspended
<1>5. ASSUME NEW s \in SubId, DunningAdvance(s) PROVE Owing'
      BY <1>5 DEF DunningAdvance, Handler, Called, Owing
<1>6. QED BY <1>1, <1>2, <1>3, <1>4, <1>5 DEF SubscriptionHandlers

LEMMA OwingTenant ==
    ASSUME TypeOK, Owing, TenantHandlers
    PROVE  Owing'
<1>1. CASE CourtesyUnlock
  <2>1. /\ "courtesy" \in ops /\ tenant'.status = "active"
        /\ tenant'.reason = tenant.reason /\ UNCHANGED <<invoices, ops, current>>
        BY <1>1 DEF CourtesyUnlock, Handler, Called, TypeOK, Tenant
  <2>2. /\ Unpaid' = Unpaid /\ UnpaidOf(current)' = UnpaidOf(current)
        BY <2>1 DEF Unpaid, UnpaidOf
  <2>3. CurrentResolved => CurrentResolved'
        BY <1>1, <2>1 DEF CourtesyUnlock, CurrentResolved, CurrentIn, TypeOK
  <2>4. QED BY <2>1, <2>2, <2>3 DEF Owing, ByHand, DunningReason, DunningSuspended
<1>2. ASSUME NEW st \in TenantStatus, ChangeStatus(st) PROVE Owing'
  <2>1. tenant'.reason = "manual" /\ tenant'.courtesy = tenant.courtesy
        BY <1>2 DEF ChangeStatus, TypeOK, Tenant
  <2>2. QED BY <1>2, <2>1, OtherReason DEF ChangeStatus, Handler, Called, DunningReason
<1>3. CASE Blacklist
  <2>1. tenant'.reason = "abuse" /\ tenant'.courtesy = tenant.courtesy
        BY <1>3 DEF Blacklist, TypeOK, Tenant
  <2>2. QED BY <1>3, <2>1, OtherReason DEF Blacklist, Handler, Called, DunningReason
<1>4. CASE UNCHANGED <<subs, current, invoices, ops>> /\ tenant' = tenant
      BY <1>4, OwingStays DEF Unpaid, UnpaidOf, CurrentResolved, CurrentIn
<1>5. CASE UNCHANGED ops /\ tenant' = [tenant EXCEPT !.status = "active", !.reason = ""]
  <2>1. tenant'.reason = "" /\ tenant'.courtesy = tenant.courtesy
        BY <1>5 DEF TypeOK, Tenant
  <2>2. QED BY <1>5, <2>1, OtherReason DEF DunningReason
<1>6. CASE ActivateTenant
      BY <1>4, <1>5, <1>6 DEF ActivateTenant
<1>7. ASSUME NEW ends \in {now, now + TrialDays}, UpdateTrial(ends) PROVE Owing'
  <2>1. UNCHANGED <<ops, current, invoices>>
        BY <1>7 DEF UpdateTrial, Handler, Called
  <2>2. CASE MoveTrialEnd(ends)
        BY <1>4, <2>1, <2>2 DEF MoveTrialEnd
  <2>3. CASE EnableTrial(ends)
    <3>1. CASE tenant' = [tenant EXCEPT !.status = "active", !.reason = ""]
          BY <1>5, <2>1, <3>1
    <3>2. CASE tenant' = tenant /\ subs' = subs
          BY <1>4, <2>1, <3>2
    <3>3. CASE tenant' = tenant /\ CurrentIn({"cancelled"})
      <4>1. ~CurrentResolved
            BY <3>3 DEF CurrentResolved, CurrentIn
      <4>2. QED BY <2>1, <3>3, <4>1, OwingStays DEF Unpaid, UnpaidOf
    <3>4. QED BY <2>3, <3>1, <3>2, <3>3 DEF EnableTrial
  <2>4. CASE DisableTrial(ends)
    <3>1. CASE CurrentIn({"active"})
      <4>1. subs' = subs /\ tenant' = tenant
            BY <2>4, <3>1 DEF DisableTrial, CurrentIn
      <4>2. QED BY <1>4, <2>1, <4>1
    <3>2. CASE ~CurrentIn({"active"})
      <4>1. tenant'.reason = "trial_manual" /\ tenant'.courtesy = tenant.courtesy
            BY <2>4, <3>2 DEF DisableTrial, TypeOK, Tenant
      <4>2. QED BY <2>1, <4>1, OtherReason DEF DunningReason
    <3>3. QED BY <3>1, <3>2
  <2>5. QED BY <1>7, <2>2, <2>3, <2>4 DEF UpdateTrial
<1>8. CASE ProvisionTenant
  <2>1. CASE AwaitInitialization
    <3>1. tenant'.reason = "provisioning" /\ tenant'.courtesy = tenant.courtesy
          BY <2>1 DEF AwaitInitialization, TypeOK, Tenant
    <3>2. QED BY <1>8, <3>1, OtherReason DEF ProvisionTenant, Called, DunningReason
  <2>2. CASE tenant' = tenant
        BY <1>4, <1>8, <2>2 DEF ProvisionTenant, Called
  <2>3. QED BY <1>8, <2>1, <2>2 DEF ProvisionTenant
<1>9. CASE ProvisioningResult
  <2>1. CASE AwaitInitialization
    <3>1. tenant'.reason = "provisioning" /\ tenant'.courtesy = tenant.courtesy
          BY <2>1 DEF AwaitInitialization, TypeOK, Tenant
    <3>2. QED BY <1>9, <3>1, OtherReason DEF ProvisioningResult, Handler, Called, DunningReason
  <2>2. CASE tenant' = [tenant EXCEPT !.status = "active", !.reason = ""]
        BY <1>5, <1>9, <2>2 DEF ProvisioningResult, Handler, Called
  <2>3. QED BY <1>9, <2>1, <2>2 DEF ProvisioningResult
<1>10. QED BY <1>1, <1>2, <1>3, <1>6, <1>7, <1>8, <1>9 DEF TenantHandlers

LEMMA OwingStep ==
    ASSUME TypeOK, BillingInv, NewestIsCurrent, Owing, [Next]_vars
    PROVE  Owing'
<1>1. CASE Tick \/ UNCHANGED vars
  <2>1. UNCHANGED <<tenant, subs, current, invoices, ops>>
        BY <1>1 DEF Tick, vars
  <2>2. QED BY <2>1, OwingStays DEF Unpaid, UnpaidOf, CurrentResolved, CurrentIn
<1>2. CASE GeneratePass
  <2>1. /\ UNCHANGED <<tenant, ops, current>> /\ invoices \subseteq invoices'
        BY <1>2 DEF GeneratePass, Goto, GenerateDueInvoices
  <2>2. subs'[current].status = subs[current].status
        /\ subs'[current].dunning = subs[current].dunning
    <3>1. CASE subs' = subs
          BY <3>1
    <3>2. CASE GenerateDueInvoices
          BY <3>2 DEF GenerateDueInvoices, TypeOK
    <3>3. QED BY <1>2, <3>1, <3>2 DEF GeneratePass
  <2>3. QED BY <2>1, <2>2, OwingStays DEF Unpaid, UnpaidOf, CurrentResolved, CurrentIn
<1>3. CASE UnsubscribedPass
  <2>1. UNCHANGED <<subs, current, invoices, ops>>
        BY <1>3 DEF UnsubscribedPass, Goto
  <2>2. CASE Unsubscribed
    <3>1. tenant'.reason = "billing_grace_expired" /\ tenant'.courtesy = tenant.courtesy
          BY <1>3, <2>2 DEF UnsubscribedPass, TypeOK, Tenant
    <3>2. QED BY <2>1, <3>1, OtherReason DEF DunningReason
  <2>3. CASE ~Unsubscribed
    <3>1. tenant' = tenant
          BY <1>3, <2>3 DEF UnsubscribedPass
    <3>2. QED BY <2>1, <3>1, OwingStays DEF Unpaid, UnpaidOf, CurrentResolved, CurrentIn
  <2>4. QED BY <2>2, <2>3
<1>4. CASE Payments
      BY <1>4, OwingPayment DEF Payments
<1>5. QED BY <1>1, <1>2, <1>3, <1>4, OwingTrialPass, OwingCourtesyPass, OwingDunningPass,
             OwingHandlers, OwingTenant
          DEF Next, Worker

\* Catch-up forgives no period and bills none twice; and as long as staff do not
\* suspend by hand, a school that dunning keeps suspended owes something.
THEOREM SchoolsOweWhatTheyAreAsked == Spec => []DebtsAreSound
<1>1. TypeOK /\ OwingInv /\ [Next]_vars => OwingInv'
      BY BillingStep, NewestStep, OwingStep DEF OwingInv
<1>2. Init => OwingInv
      BY OwingInit DEF OwingInv
<1>3. TypeOK /\ OwingInv => DebtsAreSound
      BY NothingForgiven DEF OwingInv, Owing, ByHand, DebtsAreSound, DunningSuspensionOwes
<1>4. QED BY <1>1, <1>2, <1>3, BillingTypes, PTL DEF Spec
=============================================================================
