----------------------- MODULE InvoicePaymentsProofs -----------------------
(***************************************************************************)
(* Proofs about InvoicePayments, for any number of invoices, requests and  *)
(* references.                                                             *)
(***************************************************************************)
EXTENDS InvoicePayments, SumTheorems, TLAPS

LEMMA SessionKinds ==
    ASSUME NEW s \in Session
    PROVE  /\ s.pc = "loaded" => s \in Loaded("loaded")
           /\ s.pc = "checked" => s \in Loaded("checked")
           /\ s.pc = "reviewed" => s \in Reviewed
BY DEF Session, Idle, Done, Loaded, Reviewed

LEMMA WrittenSubType ==
    ASSUME subscription \in Subscription, NEW read, NEW new \in Subscription
    PROVE  WrittenSub(read, new) \in Subscription
BY DEF WrittenSub, Written, Subscription

LEMMA LoadType ==
    ASSUME TypeOK, NEW r \in Requests, LoadAny(r)
    PROVE  TypeOK'
<1>1. PICK i \in Invoices, amount \in Amount, ref \in References \cup {NoReference} :
            Load(r, i, amount, ref)
      BY DEF LoadAny
<1>2. [pc |-> "loaded", invoice |-> i, amount |-> amount, ref |-> ref,
       seen |-> invoice[i]] \in Loaded("loaded")
      BY DEF Loaded, TypeOK
<1>3. session' \in [Requests -> Session]
      BY <1>1, <1>2 DEF Load, Goto, TypeOK, Session
<1>4. raced' \in BOOLEAN
      BY <1>1 DEF Load, Starts
<1>5. QED BY <1>1, <1>3, <1>4 DEF Load, TypeOK

LEMMA CheckType ==
    ASSUME TypeOK, NEW r \in Requests, Check(r)
    PROVE  TypeOK'
<1>1. session[r] \in Loaded("loaded")
      BY SessionKinds DEF Check, TypeOK
<1>2. [session[r] EXCEPT !.pc = "checked"] \in Loaded("checked")
      BY <1>1 DEF Loaded
<1>3. session' \in [Requests -> Session]
      BY <1>2 DEF Check, Goto, TypeOK, Session
<1>4. QED BY <1>3 DEF Check, TypeOK

LEMMA ReviewType ==
    ASSUME TypeOK, NEW r \in Requests, Review(r)
    PROVE  TypeOK'
<1>1. session[r] \in Loaded("checked")
      BY SessionKinds DEF Review, TypeOK
<1>2. session'[r] \in Reviewed
      BY <1>1 DEF Review, Goto, Loaded, Reviewed, TypeOK
<1>3. session' \in [Requests -> Session]
      BY <1>2 DEF Review, Goto, TypeOK, Session
<1>4. QED BY <1>3 DEF Review, TypeOK

\* A reviewed request still fits the balance it has read, so the absolute
\* value it writes never exceeds the invoice.
Fits ==
    \A r \in Requests :
        session[r].pc \in {"checked", "reviewed"} =>
            session[r].seen.paid + session[r].amount <= Total

LEMMA CommitType ==
    ASSUME TypeOK, Fits, NEW r \in Requests, Commit(r)
    PROVE  TypeOK'
<1> DEFINE s == session[r]
<1>1. s \in Reviewed
      BY SessionKinds DEF Commit, TypeOK
<1>2. s.seen.paid + s.amount \in 0 .. Total
      BY <1>1, PaymentAssumption DEF Fits, Commit, Reviewed, Row, Amount
<1>3. \A c \in InvoiceStatus : Written(c, s.seen.status, NewStatus(s)) \in InvoiceStatus
      BY DEF Written, NewStatus, InvoiceStatus
<1>4. invoice' \in [Invoices -> Row]
      BY <1>1, <1>2, <1>3 DEF Commit, Credited, TypeOK, Row
<1>5. payments' \subseteq Payment
      BY <1>1 DEF Commit, RecordPayment, TypeOK, Payment, Reviewed
<1>6. subscription' \in Subscription
  <2>1. [status |-> "active", dunning |-> "none"] \in Subscription
        BY DEF Subscription
  <2>2. QED BY <2>1, WrittenSubType DEF Commit, TypeOK
<1>7. suspended' \in BOOLEAN
      BY DEF Commit, TypeOK
<1>8. session' \in [Requests -> Session]
      BY DEF Commit, Goto, TypeOK, Session
<1>9. QED BY <1>4, <1>5, <1>6, <1>7, <1>8 DEF Commit, TypeOK

LEMMA DunningType ==
    ASSUME TypeOK, DunningScan \/ DunningCommit
    PROVE  TypeOK'
<1>1. CASE DunningScan
  <2>1. raced' \in BOOLEAN
        BY <1>1 DEF DunningScan, Starts
  <2>2. QED BY <1>1, <2>1 DEF DunningScan, TypeOK, Scan
<1>2. CASE DunningCommit
  <2>1. worker \in Scan
        BY <1>2 DEF DunningCommit, TypeOK
  <2>2. [status |-> "past_due", dunning |-> DunningStepOf(worker.sub)]
            \in Subscription
        BY DEF DunningStepOf, Subscription
  <2>3. subscription' \in Subscription
        BY <1>2, <2>2, WrittenSubType DEF DunningCommit, TypeOK
  <2>4. invoice' \in [Invoices -> Row]
        BY <1>2 DEF DunningCommit, TypeOK, Row, InvoiceStatus
  <2>5. suspended' \in BOOLEAN
        BY <1>2 DEF DunningCommit, TypeOK, Written
  <2>6. QED BY <1>2, <2>3, <2>4, <2>5 DEF DunningCommit, TypeOK
<1>3. QED BY <1>1, <1>2

LEMMA FitsStep ==
    ASSUME TypeOK, Fits, [Next]_vars
    PROVE  Fits'
<1>1. ASSUME NEW r \in Requests, LoadAny(r)
      PROVE  Fits'
      BY <1>1 DEF LoadAny, Load, Goto, Fits, TypeOK
<1>2. ASSUME NEW r \in Requests, Check(r)
      PROVE  Fits'
  <2>1. session[r] \in Loaded("loaded")
        BY <1>2, SessionKinds DEF Check, TypeOK
  <2>2. Payable(session[r].seen, session[r].amount) =>
            session[r].seen.paid + session[r].amount <= Total
        BY <2>1, PaymentAssumption DEF Payable, Balance, Loaded, Row, Amount
  <2>3. QED BY <1>2, <2>1, <2>2 DEF Check, Goto, Fits, TypeOK, Loaded, Done
<1>3. ASSUME NEW r \in Requests, Review(r)
      PROVE  Fits'
      BY <1>3 DEF Review, Goto, Fits, TypeOK
<1>4. ASSUME NEW r \in Requests, Commit(r)
      PROVE  Fits'
      BY <1>4 DEF Commit, Goto, Fits, TypeOK, Done
<1>5. CASE DunningScan \/ DunningCommit \/ UNCHANGED vars
      BY <1>5 DEF DunningScan, DunningCommit, vars, Fits
<1>6. QED BY <1>1, <1>2, <1>3, <1>4, <1>5 DEF Next

LEMMA InitTypes ==
    ASSUME Init
    PROVE  TypeOK /\ Fits
<1>1. [status |-> "open", paid |-> 0] \in Row
      BY PaymentAssumption DEF Row, InvoiceStatus
<1>2. TypeOK
      BY <1>1 DEF Init, TypeOK, Subscription, Session
<1>3. Fits
      BY DEF Init, Fits, Idle
<1>4. QED BY <1>2, <1>3

LEMMA StepTypes ==
    ASSUME TypeOK, Fits, [Next]_vars
    PROVE  TypeOK' /\ Fits'
<1>1. Fits'
      BY FitsStep
<1>2. ASSUME Next PROVE TypeOK'
      BY <1>2, LoadType, CheckType, ReviewType, CommitType, DunningType DEF Next
<1>3. ASSUME UNCHANGED vars PROVE TypeOK'
      BY <1>3 DEF vars, TypeOK
<1>4. QED BY <1>1, <1>2, <1>3

\* However sessions overlap, every row stays well formed; in particular no
\* invoice is credited beyond its amount, which pay_invoice and
\* settle_tenant_invoice check against a balance that may be stale.
THEOREM PaymentTypes == Spec => []TypeOK
<1>1. Init => TypeOK /\ Fits
      BY InitTypes
<1>2. TypeOK /\ Fits /\ [Next]_vars => TypeOK' /\ Fits'
      BY StepTypes
<1>3. QED BY <1>1, <1>2, PTL DEF Spec

-----------------------------------------------------------------------------
(* Sessions that do not overlap.                                           *)

IsOpen(r) == session[r].pc \notin {"idle", "done"}

\* Nothing changes under an open session.
OneSession ==
    /\ \A r, q \in Requests : IsOpen(r) /\ IsOpen(q) => r = q
    /\ \A r \in Requests : IsOpen(r) => worker = Idle
Snapshot ==
    /\ \A r \in Requests :
          IsOpen(r) => session[r].seen = invoice[session[r].invoice]
    /\ worker # Idle => /\ worker.seen = invoice
                         /\ worker.suspended = suspended
                         /\ ScanDue

\* What a session has decided is still true when it commits.
Decided ==
    \A r \in Requests :
        /\ session[r].pc \in {"checked", "reviewed"} =>
              NotDuplicate(session[r].ref)
        /\ session[r].pc = "reviewed" =>
              session[r].lifts = (/\ Covers(session[r])
                                 /\ OthersPaid(session[r].invoice)
                                 /\ suspended)

PaidIffCovered == \A i \in Invoices : invoice[i].status = "paid" <=> invoice[i].paid = Total
SuspendedMeansUnpaid == suspended => Unpaid # {}

SerialInv == /\ TypeOK /\ Fits /\ OneSession /\ Snapshot /\ Decided
             /\ PaidIffCovered /\ SuspendedMeansUnpaid /\ ReferenceOnce

LEMMA OpenIsLoaded ==
    ASSUME TypeOK, NEW r \in Requests, IsOpen(r)
    PROVE  /\ session[r].invoice \in Invoices
           /\ session[r].amount \in Amount
           /\ session[r].seen \in Row
           /\ session[r].ref \in References \cup {NoReference}
<1>1. session[r] \in Session
      BY DEF TypeOK
<1>2. session[r] \in Loaded("loaded") \cup Loaded("checked") \cup Reviewed
      BY <1>1 DEF IsOpen, Session, Idle, Done
<1>3. QED BY <1>2 DEF Loaded, Reviewed

LEMMA AloneClosed ==
    ASSUME TypeOK, Alone
    PROVE  \A r \in Requests : ~IsOpen(r)
<1> SUFFICES ASSUME NEW r \in Requests PROVE ~IsOpen(r)
    OBVIOUS
<1>1. session[r] \in {Idle, Done}
      BY DEF Alone, Open
<1>2. QED BY <1>1 DEF IsOpen, Idle, Done

LEMMA SerialLoad ==
    ASSUME ~raced', SerialInv, NEW r \in Requests, LoadAny(r)
    PROVE  /\ OneSession' /\ Snapshot' /\ Decided'
           /\ PaidIffCovered' /\ SuspendedMeansUnpaid' /\ ReferenceOnce'
<1>1. PICK i \in Invoices, amount \in Amount, ref \in References \cup {NoReference} :
            Load(r, i, amount, ref)
      BY DEF LoadAny
<1>2. worker = Idle /\ \A q \in Requests : ~IsOpen(q)
      BY <1>1, AloneClosed DEF Load, Starts, Alone, SerialInv
<1>3. /\ session' = [session EXCEPT ![r] = [pc |-> "loaded", invoice |-> i,
                        amount |-> amount, ref |-> ref, seen |-> invoice[i]]]
      /\ UNCHANGED <<invoice, payments, subscription, suspended, worker>>
      BY <1>1 DEF Load, Goto
<1>4. OneSession'
      BY <1>2, <1>3 DEF OneSession, IsOpen, SerialInv, TypeOK
<1>5. Snapshot'
      BY <1>2, <1>3 DEF Snapshot, IsOpen, SerialInv, TypeOK
<1>6. Decided'
      BY <1>2, <1>3 DEF Decided, IsOpen, SerialInv, TypeOK
<1>7. QED BY <1>3, <1>4, <1>5, <1>6 DEF SerialInv, PaidIffCovered,
               SuspendedMeansUnpaid, Unpaid, ReferenceOnce

LEMMA SerialCheck ==
    ASSUME SerialInv, NEW r \in Requests, Check(r)
    PROVE  /\ OneSession' /\ Snapshot' /\ Decided'
           /\ PaidIffCovered' /\ SuspendedMeansUnpaid' /\ ReferenceOnce'
<1> DEFINE passes == NotDuplicate(session[r].ref)
                        /\ Payable(session[r].seen, session[r].amount)
<1>1. session[r] \in Loaded("loaded")
      BY SessionKinds DEF Check, TypeOK, SerialInv
<1>2. /\ session' = [session EXCEPT ![r] =
             IF passes THEN [session[r] EXCEPT !.pc = "checked"] ELSE Done]
      /\ UNCHANGED <<invoice, payments, subscription, suspended, worker>>
      BY DEF Check, Goto
<1>3. /\ IsOpen(r)
      /\ \A q \in Requests : q # r => session'[q] = session[q]
      /\ passes => /\ session'[r].pc = "checked"
                   /\ session'[r].seen = session[r].seen
                   /\ session'[r].invoice = session[r].invoice
                   /\ session'[r].ref = session[r].ref
      /\ ~passes => session'[r].pc = "done"
      BY <1>1, <1>2 DEF IsOpen, Loaded, Done, SerialInv, TypeOK
<1> HIDE DEF passes
<1>4. OneSession'
      BY <1>2, <1>3 DEF OneSession, IsOpen, SerialInv
<1>5. Snapshot'
      BY <1>2, <1>3 DEF Snapshot, IsOpen, SerialInv, ScanDue
<1>6. Decided'
      BY <1>2, <1>3 DEF Decided, SerialInv, NotDuplicate, Covers, OthersPaid,
                        Unpaid, passes
<1>7. QED BY <1>2, <1>4, <1>5, <1>6 DEF SerialInv, PaidIffCovered,
               SuspendedMeansUnpaid, Unpaid, ReferenceOnce

LEMMA SerialReview ==
    ASSUME SerialInv, NEW r \in Requests, Review(r)
    PROVE  /\ OneSession' /\ Snapshot' /\ Decided'
           /\ PaidIffCovered' /\ SuspendedMeansUnpaid' /\ ReferenceOnce'
<1>1. /\ session[r].pc = "checked"
      /\ UNCHANGED <<invoice, payments, subscription, suspended, worker>>
      BY DEF Review
<1>2. /\ IsOpen(r)
      /\ \A q \in Requests : q # r => session'[q] = session[q]
      /\ session'[r].pc = "reviewed"
      /\ session'[r].seen = session[r].seen
      /\ session'[r].invoice = session[r].invoice
      /\ session'[r].amount = session[r].amount
      /\ session'[r].ref = session[r].ref
      /\ session'[r].lifts = (/\ Covers(session[r])
                             /\ OthersPaid(session[r].invoice)
                             /\ suspended)
      BY DEF Review, Goto, IsOpen, SerialInv, TypeOK
<1>4. OneSession'
      BY <1>1, <1>2 DEF OneSession, IsOpen, SerialInv
<1>5. Snapshot'
      BY <1>1, <1>2 DEF Snapshot, IsOpen, SerialInv, ScanDue
<1>6. Decided'
      BY <1>1, <1>2 DEF Decided, SerialInv, NotDuplicate, Covers, OthersPaid,
                        Unpaid
<1>7. QED BY <1>1, <1>4, <1>5, <1>6 DEF SerialInv, PaidIffCovered,
               SuspendedMeansUnpaid, Unpaid, ReferenceOnce

\* What a commit does when nothing has changed under the session.
LEMMA CommitAlone ==
    ASSUME SerialInv, NEW r \in Requests, Commit(r)
    PROVE  LET s == session[r]
               i == s.invoice
           IN  /\ i \in Invoices
               /\ invoice' = [invoice EXCEPT ![i] =
                      [status |-> NewStatus(s), paid |-> invoice[i].paid + s.amount]]
               /\ s.amount \in Amount
               /\ invoice[i].paid + s.amount \in 0 .. Total
               /\ NewStatus(s) = "paid" <=> invoice[i].paid + s.amount = Total
               /\ Covers(s) <=> invoice[i].paid + s.amount = Total
               /\ Unpaid' = IF Covers(s) THEN Unpaid \ {i} ELSE Unpaid \cup {i}
               /\ suspended' = (suspended /\ ~(Covers(s) /\ OthersPaid(i)))
<1> DEFINE s == session[r]
           i == s.invoice
<1>1. s \in Reviewed /\ IsOpen(r)
      BY SessionKinds DEF Commit, TypeOK, SerialInv, IsOpen
<1>2. i \in Invoices /\ s.amount \in Amount /\ s.seen = invoice[i] /\ s.seen \in Row
      BY <1>1 DEF SerialInv, Snapshot, Reviewed
<1>3. invoice' = [invoice EXCEPT ![i] =
                      [status |-> NewStatus(s), paid |-> invoice[i].paid + s.amount]]
      BY <1>2 DEF Commit, Credited, Written, SerialInv, TypeOK
<1>4. invoice[i].paid + s.amount \in 0 .. Total
      BY <1>1, <1>2, PaymentAssumption DEF SerialInv, Fits, Commit, Row, Amount
<1>5. Covers(s) <=> invoice[i].paid + s.amount = Total
      BY <1>2, <1>4, PaymentAssumption DEF Covers
<1>6. NewStatus(s) = "paid" <=> Covers(s)
      BY DEF NewStatus
<1>7. Unpaid' = IF Covers(s) THEN Unpaid \ {i} ELSE Unpaid \cup {i}
      BY <1>2, <1>3, <1>6 DEF Unpaid, SerialInv, TypeOK
<1>8. suspended' = (suspended /\ ~(Covers(s) /\ OthersPaid(i)))
  <2>1. s.lifts = (Covers(s) /\ OthersPaid(i) /\ suspended)
        BY <1>1 DEF SerialInv, Decided, Commit
  <2>2. suspended' = (suspended /\ ~s.lifts)
        BY DEF Commit
  <2>3. QED BY <2>1, <2>2
<1>9. QED BY <1>2, <1>3, <1>4, <1>5, <1>6, <1>7, <1>8

LEMMA SerialCommit ==
    ASSUME SerialInv, NEW r \in Requests, Commit(r)
    PROVE  /\ OneSession' /\ Snapshot' /\ Decided'
           /\ PaidIffCovered' /\ SuspendedMeansUnpaid' /\ ReferenceOnce'
<1> DEFINE s == session[r]
           i == s.invoice
<1>1. IsOpen(r) /\ s.pc = "reviewed"
      BY DEF Commit, IsOpen
<1>2. /\ \A q \in Requests : ~IsOpen(q)'
      /\ worker = Idle /\ worker' = Idle
      BY <1>1 DEF Commit, Goto, IsOpen, Done, OneSession, SerialInv, TypeOK
<1>3. OneSession' /\ Snapshot'
      BY <1>2 DEF OneSession, Snapshot
<1>4. Decided'
      BY <1>2 DEF Decided, IsOpen
<1>5. PaidIffCovered'
  <2>1. /\ i \in Invoices
        /\ invoice'[i] = [status |-> NewStatus(s), paid |-> invoice[i].paid + s.amount]
        /\ \A j \in Invoices : j # i => invoice'[j] = invoice[j]
        BY CommitAlone DEF SerialInv, TypeOK
  <2>2. invoice'[i].status = "paid" <=> invoice'[i].paid = Total
        BY <2>1, CommitAlone
  <2>3. QED BY <2>1, <2>2 DEF PaidIffCovered, SerialInv
<1>6. SuspendedMeansUnpaid'
  <2> SUFFICES ASSUME suspended' PROVE Unpaid' # {}
      BY DEF SuspendedMeansUnpaid
  <2>1. CASE Covers(s)
        BY <2>1, CommitAlone DEF OthersPaid
  <2>2. CASE ~Covers(s)
        BY <2>2, CommitAlone
  <2>3. QED BY <2>1, <2>2
<1>7. ReferenceOnce'
  <2>1. NotDuplicate(s.ref)
        BY <1>1 DEF SerialInv, Decided
  <2>2. QED BY <2>1 DEF Commit, RecordPayment, ReferenceOnce, NotDuplicate, SerialInv
<1>8. QED BY <1>3, <1>4, <1>5, <1>6, <1>7

LEMMA SerialDunning ==
    ASSUME ~raced', SerialInv, DunningScan \/ DunningCommit
    PROVE  /\ OneSession' /\ Snapshot' /\ Decided'
           /\ PaidIffCovered' /\ SuspendedMeansUnpaid' /\ ReferenceOnce'
           /\ \A i \in Invoices : invoice'[i].paid = invoice[i].paid
           /\ suspended' # suspended => suspended' /\ Unpaid # {}
<1>1. CASE DunningScan
  <2>1. \A q \in Requests : ~IsOpen(q)
        BY <1>1, AloneClosed DEF DunningScan, Starts, SerialInv
  <2>2. UNCHANGED <<invoice, payments, subscription, suspended, session>>
        BY <1>1 DEF DunningScan
  <2>3. OneSession' /\ Snapshot' /\ Decided'
        BY <1>1, <2>1, <2>2 DEF DunningScan, OneSession, Snapshot, Decided,
                                IsOpen, ScanDue
  <2>4. QED BY <2>2, <2>3 DEF SerialInv, PaidIffCovered, SuspendedMeansUnpaid,
                              Unpaid, ReferenceOnce
<1>2. CASE DunningCommit
  <2>1. \A q \in Requests : ~IsOpen(q)
        BY <1>2 DEF DunningCommit, SerialInv, OneSession
  <2>2. UNCHANGED <<payments, session>> /\ worker' = Idle
        BY <1>2 DEF DunningCommit
  <2>3. ScanDue /\ worker.suspended = suspended /\ worker.seen = invoice
        BY <1>2 DEF DunningCommit, SerialInv, Snapshot
  <2>4. Unpaid # {}
        BY <2>3 DEF ScanDue, Unpaid
  <2>5. OneSession' /\ Snapshot' /\ Decided'
        BY <2>1, <2>2 DEF OneSession, Snapshot, Decided, IsOpen
  <2>6. \A i \in Invoices :
            /\ invoice'[i].paid = invoice[i].paid
            /\ invoice'[i].status = "paid" <=> invoice[i].status = "paid"
    <3> SUFFICES ASSUME NEW i \in Invoices
                 PROVE  /\ invoice'[i].paid = invoice[i].paid
                        /\ invoice'[i].status = "paid" <=> invoice[i].status = "paid"
        OBVIOUS
    <3>1. invoice'[i] = IF /\ DunningStepOf(worker.sub) = "past_due"
                           /\ invoice[i].status = "open"
                          THEN [invoice[i] EXCEPT !.status = "past_due"]
                          ELSE invoice[i]
          BY <1>2, <2>3 DEF DunningCommit
    <3>2. invoice[i] \in Row
          BY DEF SerialInv, TypeOK
    <3>3. QED BY <3>1, <3>2 DEF Row
  <2>7. Unpaid' = Unpaid
        BY <2>6 DEF Unpaid
  <2>8. PaidIffCovered' /\ SuspendedMeansUnpaid' /\ ReferenceOnce'
        BY <2>2, <2>4, <2>6, <2>7 DEF SerialInv, PaidIffCovered,
           SuspendedMeansUnpaid, ReferenceOnce
  <2>9. suspended' # suspended => suspended' /\ Unpaid # {}
        BY <1>2, <2>4 DEF DunningCommit, Written, SerialInv, TypeOK
  <2>10. QED BY <2>5, <2>6, <2>8, <2>9
<1>3. QED BY <1>1, <1>2

\* raced stays set.
LEMMA RacedStays ==
    ASSUME [Next]_vars, ~raced'
    PROVE  ~raced
BY DEF Next, vars, LoadAny, Load, Starts, Check, Review, Commit, DunningScan,
       DunningCommit

LEMMA SerialInit == Init => SerialInv
<1> SUFFICES ASSUME Init PROVE SerialInv
    OBVIOUS
<1>1. TypeOK /\ Fits
      BY InitTypes
<1>2. QED BY <1>1, PaymentAssumption DEF Init, SerialInv, OneSession, Snapshot,
             Decided, IsOpen, Idle, PaidIffCovered, SuspendedMeansUnpaid,
             ReferenceOnce

LEMMA SerialStep ==
    ASSUME SerialInv, [Next]_vars, ~raced'
    PROVE  SerialInv'
<1>1. TypeOK' /\ Fits'
      BY StepTypes DEF SerialInv
<1>2. ASSUME Next PROVE SerialInv'
      BY <1>1, <1>2, SerialLoad, SerialCheck, SerialReview, SerialCommit,
         SerialDunning DEF Next, SerialInv
<1>3. ASSUME UNCHANGED vars PROVE SerialInv'
      BY <1>1, <1>3 DEF vars, SerialInv, OneSession, Snapshot, Decided, IsOpen,
         PaidIffCovered, SuspendedMeansUnpaid, ReferenceOnce, Unpaid, ScanDue,
         NotDuplicate, Covers, OthersPaid
<1>4. QED BY <1>2, <1>3

LEMMA SerialInvariant == Spec => [](~raced => SerialInv)
<1>1. (~raced => SerialInv) /\ [Next]_vars => (~raced' => SerialInv')
      BY RacedStays, SerialStep
<1>2. QED BY <1>1, SerialInit, PTL DEF Spec

\* As long as no two sessions have overlapped, a reference is recorded once, as
\* the comment in pay_invoice says.
THEOREM SerialReferences == Spec => []ReferenceOnceUnraced
<1>1. (~raced => SerialInv) => ReferenceOnceUnraced
      BY DEF SerialInv, ReferenceOnceUnraced
<1>2. QED BY <1>1, SerialInvariant, PTL

\* ... and an invoice is settled only when it is fully covered, ...
THEOREM SerialSettlements == Spec => []PaidMeansCovered
<1>1. (~raced => SerialInv) => PaidMeansCovered
      BY DEF SerialInv, PaidMeansCovered, PaidIffCovered
<1>2. QED BY <1>1, SerialInvariant, PTL

\* ... and the payment that leaves nothing owed lets the school in again.
THEOREM SerialLifting == Spec => []PaidUpMeansLifted
<1>1. (~raced => SerialInv) => PaidUpMeansLifted
      BY DEF SerialInv, PaidUpMeansLifted, SuspendedMeansUnpaid
<1>2. QED BY <1>1, SerialInvariant, PTL

\* The three together: only overlapping sessions break them.
THEOREM SerialPayments == Spec => []SerialPaymentsAreSound
<1>1. ReferenceOnceUnraced /\ PaidMeansCovered /\ PaidUpMeansLifted
         => SerialPaymentsAreSound
      BY DEF SerialPaymentsAreSound
<1>2. QED BY <1>1, SerialReferences, SerialSettlements, SerialLifting, PTL

-----------------------------------------------------------------------------
(* Refinement of PaymentLedger.                                            *)

LEMMA OwedIsUnpaid ==
    ASSUME SerialInv
    PROVE  Ledger!Owed = Unpaid
BY PaymentAssumption DEF SerialInv, PaidIffCovered, Ledger!Owed, Unpaid, TypeOK, Row

LEMMA CommitCredits ==
    ASSUME SerialInv, SerialInv', NEW r \in Requests, Commit(r)
    PROVE  Ledger!Next
<1> DEFINE s == session[r]
           i == s.invoice
<1>1. IsOpen(r) /\ s.pc = "reviewed"
      BY DEF Commit, IsOpen
<1>2. s.ref \in References \cup {NoReference} /\ NotDuplicate(s.ref)
      BY <1>1, OpenIsLoaded DEF SerialInv, Decided
<1>3. s.ref \notin {p.ref : p \in payments} \ {NoReference}
      BY <1>2 DEF NotDuplicate
<1>4. {p.ref : p \in payments'} \ {NoReference}
        = ({p.ref : p \in payments} \ {NoReference}) \cup ({s.ref} \ {NoReference})
  <2> DEFINE new == [by |-> r, invoice |-> i, amount |-> s.amount, ref |-> s.ref]
  <2>1. payments' = payments \cup {new}
        BY DEF Commit, RecordPayment
  <2>2. new.ref = s.ref
        OBVIOUS
  <2> HIDE DEF new
  <2>3. {p.ref : p \in payments'} = {p.ref : p \in payments} \cup {s.ref}
        BY <2>1, <2>2
  <2>4. QED BY <2>3
<1>5. /\ i \in Invoices /\ s.amount \in Amount
      /\ invoice[i].paid + s.amount \in 0 .. Total
      /\ \A j \in Invoices : invoice'[j].paid =
             IF j = i THEN invoice[i].paid + s.amount ELSE invoice[j].paid
  <2>1. /\ i \in Invoices /\ s.amount \in Amount
        /\ invoice[i].paid + s.amount \in 0 .. Total
        /\ invoice' = [invoice EXCEPT ![i] =
                [status |-> NewStatus(s), paid |-> invoice[i].paid + s.amount]]
        BY CommitAlone
  <2>2. QED BY <2>1 DEF SerialInv, TypeOK
<1>6. suspended' = (suspended /\ Unpaid' # {})
  <2>1. CASE Covers(s)
        BY <2>1, CommitAlone DEF OthersPaid
  <2>2. CASE ~Covers(s)
        BY <2>2, CommitAlone
  <2>3. QED BY <2>1, <2>2
<1>7. Ledger!Owed' = Unpaid'
      BY OwedIsUnpaid, PaymentAssumption DEF SerialInv, PaidIffCovered, Ledger!Owed, Unpaid, TypeOK, Row
<1>8. PICK j \in Invoices, amount \in 1 .. Total,
           ref \in References \cup {NoReference} :
           j = i /\ amount = s.amount /\ ref = s.ref
      BY <1>2, <1>5 DEF Amount
<1>9. Ledger!Credit(j, amount, ref)
  <2> DEFINE c == [k \in Invoices |-> invoice[k].paid]
  <2>1. [k \in Invoices |-> invoice'[k].paid] = [c EXCEPT ![j] = @ + amount]
        BY <1>5, <1>8
  <2>2. c[j] + amount <= Total
        BY <1>5, <1>8, PaymentAssumption
  <2>3. QED BY <1>3, <1>4, <1>6, <1>7, <1>8, <2>1, <2>2 DEF Ledger!Credit
<1>10. QED BY <1>9 DEF Ledger!Next

\* Until two sessions overlap a payment is one atomic, idempotent credit, and
\* the school is let in again exactly by the payment that leaves nothing owed.
THEOREM SerialPaymentsAreAtomic == Spec => CreditsAreAtomic
<1>1. Init => Ledger!Init
      BY DEF Init, Ledger!Init
<1>2. ASSUME SerialInv, SerialInv', [Next]_vars, ~raced'
      PROVE  [Ledger!Next]_(Ledger!ledgerVars)
  <2> SUFFICES ASSUME SerialInv, SerialInv', [Next]_vars, ~raced'
               PROVE  [Ledger!Next]_(Ledger!ledgerVars)
      BY <1>2
  <2>1. ASSUME NEW r \in Requests, LoadAny(r) \/ Check(r) \/ Review(r)
        PROVE  UNCHANGED Ledger!ledgerVars
        BY <2>1 DEF LoadAny, Load, Check, Review, Ledger!ledgerVars
  <2>2. ASSUME DunningScan \/ DunningCommit
        PROVE  Ledger!Suspend \/ UNCHANGED Ledger!ledgerVars
    <3>1. UNCHANGED payments
          BY <2>2 DEF DunningScan, DunningCommit
    <3>2. /\ \A i \in Invoices : invoice'[i].paid = invoice[i].paid
          /\ suspended' # suspended => suspended' = TRUE /\ Unpaid # {}
          BY <2>2, SerialDunning, RacedStays DEF SerialInv, TypeOK
    <3>3. QED BY <3>1, <3>2, OwedIsUnpaid DEF Ledger!Suspend, Ledger!ledgerVars
  <2>3. ASSUME UNCHANGED vars
        PROVE  UNCHANGED Ledger!ledgerVars
        BY <2>3 DEF vars, Ledger!ledgerVars
  <2>4. QED BY <2>1, <2>2, <2>3, CommitCredits DEF Next, Ledger!Next
<1>3. (~raced => SerialInv) /\ (~raced => SerialInv)' /\ [Next]_vars
        => [raced' \/ Ledger!Next]_(Ledger!ledgerVars)
      BY <1>2, RacedStays
<1>4. QED BY <1>1, <1>3, SerialInvariant, PTL DEF Spec, CreditsAreAtomic

-----------------------------------------------------------------------------
(* Credits, however payments race.                                         *)

Amounts == [p \in Payment |-> p.amount]
Backed(recorded, i, credit) ==
    \E some \in SUBSET {p \in recorded : p.invoice = i} :
        IsFiniteSet(some) /\ credit = SumFunctionOnSet(Amounts, some)

\* The credit that is there is backed, and so is the one that a session has
\* read; a session that is open has not recorded its payment.
BackedInv ==
    /\ \A i \in Invoices : Backed(payments, i, invoice[i].paid)
    /\ \A r \in Requests : session[r] \notin {Idle, Done} =>
          Backed(payments, session[r].invoice, session[r].seen.paid)
    /\ \A p \in payments : session[p.by] = Done

LEMMA BackedInit == Init => BackedInv
<1> SUFFICES ASSUME Init PROVE BackedInv
    OBVIOUS
<1>1. \A i \in Invoices : Backed(payments, i, 0)
      BY FS_EmptySet, SumOfNone DEF Backed
<1>2. QED BY <1>1 DEF Init, BackedInv

\* More payments back as much.
LEMMA BackedStays ==
    ASSUME payments \subseteq payments'
    PROVE  \A i, credit : Backed(payments, i, credit) => Backed(payments', i, credit)
BY DEF Backed

LEMMA BackedCommit ==
    ASSUME TypeOK, BackedInv, NEW r \in Requests, Commit(r)
    PROVE  BackedInv'
<1> DEFINE s == session[r]
           new == [by |-> r, invoice |-> s.invoice, amount |-> s.amount, ref |-> s.ref]
<1>1. s \in Reviewed /\ s \notin {Idle, Done}
      BY SessionKinds DEF Commit, TypeOK, Reviewed, Idle, Done
<1>2. payments' = payments \cup {new} /\ new \in Payment
      BY <1>1 DEF Commit, RecordPayment, Payment, Reviewed
<1>3. new \notin payments
      BY <1>1 DEF BackedInv
<1>4. PICK some \in SUBSET {p \in payments : p.invoice = s.invoice} :
         IsFiniteSet(some) /\ s.seen.paid = SumFunctionOnSet(Amounts, some)
      BY <1>1 DEF BackedInv, Backed
<1>5. /\ new \notin some /\ some \subseteq Payment
      /\ some \cup {new} \subseteq {p \in payments' : p.invoice = s.invoice}
      BY <1>2, <1>3, <1>4 DEF TypeOK
<1>6. \A p \in some \cup {new} : Amounts[p] \in Nat
      BY <1>2, <1>5, PaymentAssumption DEF Amounts, Payment, Amount
<1>7. Amounts[new] = s.amount
      BY <1>2 DEF Amounts
<1>8. SumFunctionOnSet(Amounts, some \cup {new}) = s.seen.paid + s.amount
  <2> HIDE DEF new
  <2>1. QED BY <1>4, <1>5, <1>6, <1>7, SumWith
<1>9. IsFiniteSet(some \cup {new})
  <2> HIDE DEF new
  <2>1. QED BY <1>4, FS_AddElement
<1>10. Backed(payments', s.invoice, s.seen.paid + s.amount)
      BY <1>5, <1>8, <1>9 DEF Backed
<1>11. /\ invoice'[s.invoice].paid = s.seen.paid + s.amount
       /\ \A i \in Invoices : i # s.invoice => invoice'[i].paid = invoice[i].paid
      BY <1>1 DEF Commit, Credited, TypeOK, Reviewed
<1>12. session'[r] = Done /\ \A q \in Requests : q # r => session'[q] = session[q]
      BY DEF Commit, Goto, TypeOK
<1>13. \A i, credit : Backed(payments, i, credit) => Backed(payments', i, credit)
      BY <1>2, BackedStays
<1>14. \A i \in Invoices : Backed(payments', i, invoice'[i].paid)
      BY <1>10, <1>11, <1>13 DEF BackedInv
<1>15. \A p \in payments' : session'[p.by] = Done
      BY <1>2, <1>12 DEF BackedInv, TypeOK, Payment
<1>16. QED BY <1>12, <1>13, <1>14, <1>15 DEF BackedInv

LEMMA BackedStep ==
    ASSUME TypeOK, BackedInv, [Next]_vars
    PROVE  BackedInv'
<1>1. ASSUME NEW r \in Requests, LoadAny(r) PROVE BackedInv'
  <2>1. PICK i \in Invoices, amount \in Amount, ref \in References \cup {NoReference} :
           Load(r, i, amount, ref)
        BY <1>1 DEF LoadAny
  <2>2. /\ UNCHANGED <<invoice, payments>>
        /\ session[r] = Idle
        /\ session'[r].invoice = i /\ session'[r].seen = invoice[i]
        /\ \A q \in Requests : q # r => session'[q] = session[q]
        BY <2>1 DEF Load, Goto, TypeOK
  <2>3. \A p \in payments : p.by # r /\ p.by \in Requests
        BY <2>2 DEF BackedInv, Idle, Done, TypeOK, Payment
  <2>4. QED BY <2>2, <2>3 DEF BackedInv
<1>2. ASSUME NEW r \in Requests, Check(r) \/ Review(r) PROVE BackedInv'
  <2>1. /\ UNCHANGED <<invoice, payments>>
        /\ session[r] \notin {Idle, Done}
        /\ \A q \in Requests : q # r => session'[q] = session[q]
        BY <1>2 DEF Check, Review, Goto, TypeOK, Idle, Done
  <2>2. session[r] \in Loaded("loaded") \/ session[r] \in Loaded("checked")
        BY <1>2, SessionKinds DEF Check, Review, TypeOK
  <2>3. \/ session'[r] = Done
        \/ /\ session'[r].invoice = session[r].invoice
           /\ session'[r].seen = session[r].seen
        BY <1>2, <2>2 DEF Check, Review, Goto, TypeOK, Loaded
  <2>4. \A p \in payments : p.by # r /\ p.by \in Requests
        BY <2>1 DEF BackedInv, TypeOK, Payment
  <2>5. QED BY <2>1, <2>3, <2>4 DEF BackedInv
<1>3. ASSUME DunningScan \/ DunningCommit \/ UNCHANGED vars PROVE BackedInv'
  <2>1. UNCHANGED <<payments, session>>
        BY <1>3 DEF DunningScan, DunningCommit, vars
  <2>2. \A i \in Invoices : invoice'[i].paid = invoice[i].paid
        BY <1>3 DEF DunningScan, DunningCommit, vars, TypeOK, Row
  <2>3. QED BY <2>1, <2>2 DEF BackedInv
<1>4. QED BY <1>1, <1>2, <1>3, BackedCommit DEF Next

\* However payments overlap, what an invoice is credited with is money that
\* recorded payments brought (apply_payment_to_invoice).
THEOREM CreditsAreBacked == Spec => []CreditIsBacked
<1>1. BackedInv => CreditIsBacked
      BY DEF BackedInv, Backed, CreditIsBacked, PaymentsOf, Amounts
<1>2. TypeOK /\ BackedInv /\ [Next]_vars => BackedInv'
      BY BackedStep
<1>3. QED BY BackedInit, PaymentTypes, <1>1, <1>2, PTL DEF Spec
=============================================================================
