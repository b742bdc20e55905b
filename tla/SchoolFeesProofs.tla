-------------------------- MODULE SchoolFeesProofs --------------------------
(***************************************************************************)
(* What the payment of school fees keeps true for any number of invoices,  *)
(* checkouts and requests of the bursar, and any number of crashes.        *)
(***************************************************************************)
EXTENDS SchoolFees, SumTheorems, TLAPS

-----------------------------------------------------------------------------
(* Who changes what.                                                       *)

Calls == Checkouts \X Vias
Typed == /\ checkout \in [Checkouts -> [status : {"none", "pending", "settled"},
                                         purpose : Purpose]]
         /\ settling \in [Calls -> Steps]
         /\ clerk \in [Clerks -> [pc : ClerkSteps, purpose : Purpose]]
         /\ invoice \in [Invoices -> {"unpaid", "partial", "paid", "cancelled"}]
         /\ cancel \in [Invoices -> {"idle", "cancelling", "done"}]

LEMMA CallMoves ==
    ASSUME Typed, NEW c \in Checkouts, NEW via \in Vias, NEW pc \in Steps,
           Goto(c, via, pc)
    PROVE  /\ settling' \in [Calls -> Steps]
           /\ settling'[<<c, via>>] = pc
           /\ \A d \in Checkouts, w \in Vias :
                 d # c \/ w # via => settling'[<<d, w>>] = settling[<<d, w>>]
<1>1. <<c, via>> \in Calls
      BY DEF Calls
<1>2. \A h \in Calls : settling'[h] = IF h = <<c, via>> THEN pc ELSE settling[h]
      BY <1>1 DEF Goto, Typed
<1>3. settling' \in [Calls -> Steps]
      BY DEF Goto, Typed
<1>4. \A d \in Checkouts, w \in Vias : <<d, w>> \in Calls
      BY DEF Calls
<1>5. \A d \in Checkouts, w \in Vias :
         d # c \/ w # via => settling'[<<d, w>>] = settling[<<d, w>>]
      BY <1>2, <1>4
<1>6. QED BY <1>1, <1>2, <1>3, <1>5

\* A step of Next, sorted by who takes it.
LEMMA NextKinds ==
    ASSUME [Next]_vars
    PROVE  \/ \E c \in Checkouts : (\E p \in Purpose : CreateCheckout(c, p)) \/ Charge(c) \/ Ignore(c)
           \/ \E c \in Checkouts, via \in Vias :
                Begin(c, via) \/ SettleStep(c, via) \/ Crash(c, via)
           \/ \E k \in Clerks : (\E p \in Purpose : BeginCash(k, p)) \/ ClerkStep(k)
           \/ \E i \in Invoices : BeginCancel(i) \/ Cancel(i)
           \/ UNCHANGED vars
BY DEF Next

\* Where a call goes from where it is, and with what.
Moved(c, via, from, to) ==
    /\ settling[<<c, via>>] \in from /\ settling'[<<c, via>>] \in to
    /\ \A d \in Checkouts, w \in Vias :
          d # c \/ w # via => settling'[<<d, w>>] = settling[<<d, w>>]

LEMMA TailSteps == \A c : Tail(c) \in {"installment", "credit", "idle"}
BY DEF Tail

LEMMA CallSteps ==
    ASSUME Typed, NEW c \in Checkouts, NEW via \in Vias
    PROVE  /\ Begin(c, via) => Moved(c, via, {"idle"}, {"read"})
           /\ LookUp(c, via) => Moved(c, via, {"read"}, {"insert", "found"})
           /\ SettleFound(c, via) => Moved(c, via, {"found"}, {"idle"})
           /\ InsertPayment(c, via) => Moved(c, via, {"insert"}, {"settle", "idle"})
           /\ SettleSession(c, via) =>
                Moved(c, via, {"settle"}, {"balance", "installment", "credit", "idle"})
           /\ ReadBalance(c, via) => Moved(c, via, {"balance"}, {"paid", "remind"})
           /\ MarkPaid(c, via) => Moved(c, via, {"paid"}, {"remind"})
           /\ StopReminders(c, via) =>
                Moved(c, via, {"remind"}, {"installment", "credit", "idle"})
           /\ PayInstallment(c, via) => Moved(c, via, {"installment"}, {"credit", "idle"})
           /\ CreditAdvance(c, via) => Moved(c, via, {"credit"}, {"idle"})
           /\ Crash(c, via) => Moved(c, via, Steps \ {"idle"}, {"idle"})
<1> USE DEF Steps, At
<1>1. ASSUME NEW pc \in Steps, Goto(c, via, pc), NEW from, NEW to,
             settling[<<c, via>>] \in from, pc \in to
      PROVE  Moved(c, via, from, to)
      BY <1>1, CallMoves DEF Moved
<1>2. Begin(c, via) => Moved(c, via, {"idle"}, {"read"})
      BY <1>1 DEF Begin
<1>3. LookUp(c, via) => Moved(c, via, {"read"}, {"insert", "found"})
      BY <1>1 DEF LookUp
<1>4. SettleFound(c, via) => Moved(c, via, {"found"}, {"idle"})
      BY <1>1 DEF SettleFound
<1>5. InsertPayment(c, via) => Moved(c, via, {"insert"}, {"settle", "idle"})
      BY <1>1 DEF InsertPayment
<1>6. SettleSession(c, via) =>
        Moved(c, via, {"settle"}, {"balance", "installment", "credit", "idle"})
      BY <1>1, TailSteps DEF SettleSession
<1>7. ReadBalance(c, via) => Moved(c, via, {"balance"}, {"paid", "remind"})
      BY <1>1 DEF ReadBalance
<1>8. MarkPaid(c, via) => Moved(c, via, {"paid"}, {"remind"})
      BY <1>1 DEF MarkPaid
<1>9. StopReminders(c, via) =>
        Moved(c, via, {"remind"}, {"installment", "credit", "idle"})
      BY <1>1, TailSteps DEF StopReminders
<1>10. PayInstallment(c, via) => Moved(c, via, {"installment"}, {"credit", "idle"})
       BY <1>1 DEF PayInstallment
<1>11. CreditAdvance(c, via) => Moved(c, via, {"credit"}, {"idle"})
       BY <1>1 DEF CreditAdvance
<1>12. Crash(c, via) => Moved(c, via, Steps \ {"idle"}, {"idle"})
  <2>1. SUFFICES ASSUME Crash(c, via) PROVE Moved(c, via, Steps \ {"idle"}, {"idle"})
        OBVIOUS
  <2>2. settling[<<c, via>>] \in Steps \ {"idle"}
        BY <2>1 DEF Crash, Typed, Calls
  <2>3. QED BY <1>1, <2>1, <2>2 DEF Crash
<1>13. QED BY <1>2, <1>3, <1>4, <1>5, <1>6, <1>7, <1>8, <1>9, <1>10, <1>11, <1>12

\* A call moves by its own steps only.
LEMMA OwnCall ==
    ASSUME Typed, [Next]_vars, NEW c \in Checkouts, NEW via \in Vias
    PROVE  \/ settling'[<<c, via>>] = settling[<<c, via>>]
           \/ Begin(c, via) \/ SettleStep(c, via) \/ Crash(c, via)
<1>1. ASSUME NEW d \in Checkouts, NEW w \in Vias, Begin(d, w) \/ SettleStep(d, w) \/ Crash(d, w)
      PROVE  \A e \in Checkouts, v \in Vias :
                e # d \/ v # w => settling'[<<e, v>>] = settling[<<e, v>>]
      BY <1>1, CallSteps DEF Moved, SettleStep
<1>2. ASSUME UNCHANGED settling PROVE settling'[<<c, via>>] = settling[<<c, via>>]
      BY <1>2
<1>3. CASE \E d \in Checkouts, w \in Vias : Begin(d, w) \/ SettleStep(d, w) \/ Crash(d, w)
      BY <1>1, <1>3
<1>4. CASE \E d \in Checkouts : (\E p \in Purpose : CreateCheckout(d, p)) \/ Charge(d) \/ Ignore(d)
      BY <1>2, <1>4 DEF CreateCheckout, Charge, Ignore
<1>5. CASE \E k \in Clerks : (\E p \in Purpose : BeginCash(k, p)) \/ ClerkStep(k)
      BY <1>2, <1>5 DEF BeginCash, ClerkStep, InsertCash, CashInstallment, SumPayments,
                        WriteStatus, CashStopsReminders
<1>6. CASE \E i \in Invoices : BeginCancel(i) \/ Cancel(i)
      BY <1>2, <1>6 DEF BeginCancel, Cancel
<1>7. CASE UNCHANGED vars
      BY <1>2, <1>7 DEF vars
<1>8. QED BY <1>3, <1>4, <1>5, <1>6, <1>7, NextKinds

\* A checkout is written by createCheckout and by the two settling statements.
LEMMA OwnCheckout ==
    ASSUME Typed, [Next]_vars, NEW c \in Checkouts
    PROVE  \/ checkout'[c] = checkout[c]
           \/ \E p \in Purpose : CreateCheckout(c, p) /\ checkout'[c] = [status |-> "pending", purpose |-> p]
           \/ \E via \in Vias : /\ SettleFound(c, via) \/ SettleSession(c, via)
                                /\ checkout'[c] = [checkout[c] EXCEPT !.status = "settled"]
<1>1. ASSUME NEW d \in Checkouts, NEW p \in Purpose, CreateCheckout(d, p)
      PROVE  /\ checkout'[d] = [status |-> "pending", purpose |-> p]
             /\ d # c => checkout'[c] = checkout[c]
      BY <1>1 DEF CreateCheckout, Typed
<1>2. ASSUME NEW d \in Checkouts, MarkSettled(d)
      PROVE  /\ checkout'[d] = [checkout[d] EXCEPT !.status = "settled"]
             /\ d # c => checkout'[c] = checkout[c]
      BY <1>2 DEF MarkSettled, Typed
<1>3. ASSUME NEW d \in Checkouts, NEW w \in Vias, SettleFound(d, w) \/ SettleSession(d, w)
      PROVE  MarkSettled(d)
      BY <1>3 DEF SettleFound, SettleSession
<1>4. ASSUME UNCHANGED checkout PROVE checkout'[c] = checkout[c]
      BY <1>4
<1>5. CASE \E d \in Checkouts, w \in Vias : Begin(d, w) \/ SettleStep(d, w) \/ Crash(d, w)
  <2>1. PICK d \in Checkouts, w \in Vias : Begin(d, w) \/ SettleStep(d, w) \/ Crash(d, w)
        BY <1>5
  <2>2. CASE SettleFound(d, w) \/ SettleSession(d, w)
    <3>1. /\ checkout'[d] = [checkout[d] EXCEPT !.status = "settled"]
          /\ d # c => checkout'[c] = checkout[c]
          BY <1>2, <1>3, <2>2
    <3>2. QED BY <2>2, <3>1
  <2>3. CASE ~(SettleFound(d, w) \/ SettleSession(d, w))
        BY <1>4, <2>1, <2>3 DEF Begin, SettleStep, Crash, LookUp, InsertPayment,
           ReadBalance, MarkPaid, StopReminders, PayInstallment, CreditAdvance
  <2>4. QED BY <2>2, <2>3
<1>6. CASE \E d \in Checkouts : (\E p \in Purpose : CreateCheckout(d, p)) \/ Charge(d) \/ Ignore(d)
      BY <1>1, <1>4, <1>6 DEF Charge, Ignore
<1>7. CASE \E k \in Clerks : (\E p \in Purpose : BeginCash(k, p)) \/ ClerkStep(k)
      BY <1>4, <1>7 DEF BeginCash, ClerkStep, InsertCash, CashInstallment, SumPayments,
                        WriteStatus, CashStopsReminders
<1>8. CASE \E i \in Invoices : BeginCancel(i) \/ Cancel(i)
      BY <1>4, <1>8 DEF BeginCancel, Cancel
<1>9. CASE UNCHANGED vars
      BY <1>4, <1>9 DEF vars
<1>10. QED BY <1>5, <1>6, <1>7, <1>8, <1>9, NextKinds

LEMMA OwnClerk ==
    ASSUME Typed, [Next]_vars, NEW k \in Clerks
    PROVE  \/ clerk'[k] = clerk[k]
           \/ \E p \in Purpose : BeginCash(k, p) /\ clerk'[k] = [pc |-> "insert", purpose |-> p]
           \/ /\ ClerkStep(k) /\ clerk[k].pc \notin {"new", "done"}
              /\ clerk'[k].purpose = clerk[k].purpose
              /\ clerk'[k].pc \notin {"new", "insert"}
<1>1. ASSUME NEW l \in Clerks, NEW p \in Purpose, BeginCash(l, p)
      PROVE  /\ clerk'[l] = [pc |-> "insert", purpose |-> p]
             /\ l # k => clerk'[k] = clerk[k]
      BY <1>1 DEF BeginCash, Typed
<1>2. ASSUME NEW l \in Clerks, NEW pc, ClerkGoes(l, pc)
      PROVE  /\ clerk'[l].pc = pc /\ clerk'[l].purpose = clerk[l].purpose
             /\ l # k => clerk'[k] = clerk[k]
      BY <1>2 DEF ClerkGoes, Typed
<1>3. ASSUME NEW l \in Clerks, ClerkStep(l)
      PROVE  \E pc : pc \notin {"new", "insert"} /\ ClerkGoes(l, pc)
                    /\ clerk[l].pc \notin {"new", "done"}
      BY <1>3 DEF ClerkStep, InsertCash, CashInstallment, SumPayments, WriteStatus,
                  CashStopsReminders
<1>4. ASSUME UNCHANGED clerk PROVE clerk'[k] = clerk[k]
      BY <1>4
<1>5. CASE \E d \in Checkouts, w \in Vias : Begin(d, w) \/ SettleStep(d, w) \/ Crash(d, w)
      BY <1>4, <1>5 DEF Begin, SettleStep, Crash, LookUp, InsertPayment, SettleFound,
         SettleSession, ReadBalance, MarkPaid, StopReminders, PayInstallment, CreditAdvance
<1>6. CASE \E d \in Checkouts : (\E p \in Purpose : CreateCheckout(d, p)) \/ Charge(d) \/ Ignore(d)
      BY <1>4, <1>6 DEF Charge, Ignore, CreateCheckout
<1>7. CASE \E l \in Clerks : (\E p \in Purpose : BeginCash(l, p)) \/ ClerkStep(l)
      BY <1>1, <1>2, <1>3, <1>7
<1>8. CASE \E i \in Invoices : BeginCancel(i) \/ Cancel(i)
      BY <1>4, <1>8 DEF BeginCancel, Cancel
<1>9. CASE UNCHANGED vars
      BY <1>4, <1>9 DEF vars
<1>10. QED BY <1>5, <1>6, <1>7, <1>8, <1>9, NextKinds

\* Rows are added, and stay.
LEMMA RowsAdded ==
    ASSUME Typed, [Next]_vars
    PROVE  /\ \/ UNCHANGED payments
              \/ \E c \in Checkouts, via \in Vias :
                   /\ InsertPayment(c, via) /\ WithKey(c, via) = {}
                   /\ payments' = payments \cup {[of |-> c, via |-> via]}
                   /\ settling'[<<c, via>>] = "settle"
              \/ \E k \in Clerks :
                   /\ InsertCash(k)
                   /\ payments' = payments \cup {[of |-> k, via |-> "cash"]}
           /\ \/ UNCHANGED charged
              \/ \E c \in Checkouts : Charge(c)
           /\ \/ UNCHANGED credits
              \/ \E c \in Checkouts, via \in Vias : CreditAdvance(c, via)
           /\ due' \subseteq due
           /\ UNCHANGED <<sameKey, cast>>
           /\ crashes' # crashes => crashes' = crashes + 1 /\ crashes < MaxCrashes
<1>1. CASE \E c \in Checkouts, via \in Vias : InsertPayment(c, via)
  <2>1. PICK c \in Checkouts, via \in Vias : InsertPayment(c, via)
        BY <1>1
  <2>2. CASE WithKey(c, via) = {}
    <3>1. Goto(c, via, "settle") /\ "settle" \in Steps
          BY <2>1, <2>2 DEF InsertPayment, Steps
    <3>2. settling'[<<c, via>>] = "settle"
          BY <3>1, CallMoves
    <3>3. QED BY <2>1, <2>2, <3>2 DEF InsertPayment
  <2>3. CASE WithKey(c, via) # {}
        BY <2>1, <2>3 DEF InsertPayment
  <2>4. QED BY <2>2, <2>3
<1>2. CASE \E c \in Checkouts, via \in Vias :
              \/ Begin(c, via) \/ Crash(c, via) \/ LookUp(c, via) \/ SettleFound(c, via)
              \/ SettleSession(c, via) \/ ReadBalance(c, via) \/ MarkPaid(c, via)
              \/ StopReminders(c, via) \/ PayInstallment(c, via) \/ CreditAdvance(c, via)
      BY <1>2 DEF Begin, Crash, LookUp, SettleFound, SettleSession, ReadBalance, MarkPaid,
                  StopReminders, PayInstallment, CreditAdvance
<1>3. CASE \E c \in Checkouts : (\E p \in Purpose : CreateCheckout(c, p)) \/ Charge(c) \/ Ignore(c)
      BY <1>3 DEF CreateCheckout, Charge, Ignore
<1>4. CASE \E k \in Clerks : (\E p \in Purpose : BeginCash(k, p)) \/ ClerkStep(k)
      BY <1>4 DEF BeginCash, ClerkStep, InsertCash, CashInstallment, SumPayments,
                  WriteStatus, CashStopsReminders
<1>5. CASE \E i \in Invoices : BeginCancel(i) \/ Cancel(i)
      BY <1>5 DEF BeginCancel, Cancel
<1>6. CASE UNCHANGED vars
      BY <1>6 DEF vars
<1>7. QED BY <1>1, <1>2, <1>3, <1>4, <1>5, <1>6, NextKinds DEF SettleStep

-----------------------------------------------------------------------------
(* What a call that is under way stands on, and what rows stand on.        *)

AfterInsert == {"settle", "balance", "paid", "remind", "installment", "credit"}

CallsAreFounded ==
    \A c \in Checkouts, via \in Vias :
        /\ ~At(c, via, "idle") => c \in charged
        /\ settling[<<c, via>>] \in AfterInsert => [of |-> c, via |-> via] \in payments
        /\ settling[<<c, via>>] \in {"balance", "paid", "remind"} =>
              checkout[c].purpose.invoice \in Invoices
        /\ At(c, via, "installment") => checkout[c].purpose.installment \in Installments
        /\ At(c, via, "found") => \E p \in payments : p.of = c

RowsAreFounded ==
    /\ \A c \in charged : checkout[c].status # "none"
    /\ \A c \in Settled : c \in charged /\ \E p \in payments : p.of = c
    /\ \A p \in payments :
          \/ /\ p.via = "cash" /\ p.of \in Clerks
             /\ clerk[p.of].pc \notin {"new", "insert"}
          \/ p.via \in Vias /\ p.of \in charged
    /\ IsFiniteSet(payments)

Founded == CallsAreFounded /\ RowsAreFounded

LEMMA TypedTypes == TypeOK => Typed
BY DEF TypeOK, Typed, Calls

\* What is paid for stays the same once the payer has paid.
LEMMA ChargedStay ==
    ASSUME TypeOK, Founded, [Next]_vars, NEW c \in charged
    PROVE  /\ c \in charged' /\ c \in Checkouts
           /\ checkout'[c].purpose = checkout[c].purpose
           /\ checkout[c].status # "none" /\ checkout'[c].status # "none"
           /\ checkout[c].status = "settled" => checkout'[c].status = "settled"
<1>1. Typed /\ c \in Checkouts /\ checkout[c].status # "none"
      BY TypedTypes DEF TypeOK, Founded, RowsAreFounded
<1>2. c \in charged'
      BY <1>1, RowsAdded DEF Charge
<1>3. checkout[c] \in [status : {"none", "pending", "settled"}, purpose : Purpose]
      BY <1>1 DEF TypeOK
<1>4. \A p \in Purpose : ~CreateCheckout(c, p)
      BY <1>1 DEF CreateCheckout
<1>5. \/ checkout'[c] = checkout[c]
      \/ checkout'[c] = [checkout[c] EXCEPT !.status = "settled"]
      BY <1>1, <1>4, OwnCheckout
<1>6. QED BY <1>1, <1>2, <1>3, <1>5

LEMMA RowsStay ==
    ASSUME TypeOK, [Next]_vars
    PROVE  payments \subseteq payments' /\ charged \subseteq charged'
           /\ credits \subseteq credits'
BY RowsAdded, TypedTypes DEF Charge, CreditAdvance

LEMMA CallsFoundedStep ==
    ASSUME TypeOK, Founded, [Next]_vars
    PROVE  CallsAreFounded'
<1> SUFFICES ASSUME NEW c \in Checkouts, NEW via \in Vias
             PROVE  /\ settling'[<<c, via>>] # "idle" => c \in charged'
                    /\ settling'[<<c, via>>] \in AfterInsert =>
                          [of |-> c, via |-> via] \in payments'
                    /\ settling'[<<c, via>>] \in {"balance", "paid", "remind"} =>
                          checkout'[c].purpose.invoice \in Invoices
                    /\ settling'[<<c, via>>] = "installment" =>
                          checkout'[c].purpose.installment \in Installments
                    /\ settling'[<<c, via>>] = "found" => \E p \in payments' : p.of = c
    BY DEF CallsAreFounded, At
<1> DEFINE pc == settling[<<c, via>>]
           pd == settling'[<<c, via>>]
           purpose == checkout[c].purpose
<1>1. /\ pc # "idle" => c \in charged
      /\ pc \in AfterInsert => [of |-> c, via |-> via] \in payments
      /\ pc \in {"balance", "paid", "remind"} => purpose.invoice \in Invoices
      /\ pc = "installment" => purpose.installment \in Installments
      /\ pc = "found" => \E p \in payments : p.of = c
      BY DEF Founded, CallsAreFounded, At
<1>2. payments \subseteq payments' /\ charged \subseteq charged'
      BY RowsStay
<1>3. c \in charged => checkout'[c].purpose = purpose
      BY ChargedStay
<1>4. CASE pd = pc
      BY <1>1, <1>2, <1>3, <1>4 DEF AfterInsert
<1>5. purpose \in Purpose
      BY DEF TypeOK
<1>6. Tail(c) = "installment" => purpose.installment \in Installments
  <2>1. Advance.installment = NoInstallment
        BY DEF Advance
  <2>2. purpose.installment \in Installments \cup {NoInstallment}
        BY <1>5, <2>1 DEF Purpose
  <2>3. QED BY <2>2 DEF Tail
<1>7. purpose.invoice # NoInvoice => purpose.invoice \in Invoices
  <2>1. Advance.invoice = NoInvoice
        BY DEF Advance
  <2>2. QED BY <1>5, <2>1 DEF Purpose
<1>8. Typed
      BY TypedTypes
<1> HIDE DEF pd, purpose
<1>9. CASE Begin(c, via)
  <2>1. pd = "read" /\ c \in charged
        BY <1>8, <1>9, CallSteps DEF Moved, Begin, pd
  <2>2. QED BY <1>2, <2>1 DEF AfterInsert, pd
<1>10. CASE LookUp(c, via)
  <2>1. /\ pc = "read" /\ pd \in {"insert", "found"}
        BY <1>8, <1>10, CallSteps DEF Moved, pd
  <2>2. CASE WithKey(c, via) = {}
    <3>1. Goto(c, via, "insert") /\ "insert" \in Steps
          BY <1>10, <2>2 DEF LookUp, Steps
    <3>2. pd = "insert"
          BY <1>8, <3>1, CallMoves DEF pd
    <3>3. QED BY <1>1, <1>2, <2>1, <3>2 DEF AfterInsert, pd
  <2>3. CASE WithKey(c, via) # {}
        BY <1>1, <1>2, <2>1, <2>3 DEF AfterInsert, WithKey, pd
  <2>4. QED BY <2>2, <2>3
<1>11. CASE InsertPayment(c, via)
  <2>1. pc = "insert" /\ pd \in {"settle", "idle"}
        BY <1>8, <1>11, CallSteps DEF Moved, pd
  <2>2. CASE pd = "settle"
    <3>1. WithKey(c, via) = {}
      <4>1. SUFFICES ASSUME WithKey(c, via) # {} PROVE FALSE
            OBVIOUS
      <4>2. Goto(c, via, "idle") /\ "idle" \in Steps
            BY <1>11, <4>1 DEF InsertPayment, Steps
      <4>3. QED BY <1>8, <2>2, <4>2, CallMoves DEF pd
    <3>2. [of |-> c, via |-> via] \in payments'
          BY <1>11, <3>1 DEF InsertPayment
    <3>3. QED BY <1>1, <1>2, <2>1, <2>2, <3>2 DEF pd
  <2>3. CASE pd = "idle"
        BY <2>3 DEF AfterInsert, pd
  <2>4. QED BY <2>1, <2>2, <2>3
<1>12. CASE SettleFound(c, via) \/ CreditAdvance(c, via) \/ Crash(c, via)
  <2>1. pd = "idle"
        BY <1>8, <1>12, CallSteps DEF Moved, pd
  <2>2. QED BY <2>1 DEF AfterInsert, pd
<1>13. CASE SettleSession(c, via)
  <2>1. pc = "settle" /\ pd \in {"balance", "installment", "credit", "idle"}
        BY <1>8, <1>13, CallSteps DEF Moved, pd
  <2>2. /\ pd = "balance" => purpose.invoice # NoInvoice
        /\ pd = "installment" => Tail(c) = "installment"
    <3>1. CASE purpose.invoice # NoInvoice
      <4>1. Goto(c, via, "balance") /\ "balance" \in Steps
            BY <1>13, <3>1 DEF SettleSession, Steps, purpose
      <4>2. pd = "balance"
            BY <1>8, <4>1, CallMoves DEF pd
      <4>3. QED BY <3>1, <4>2
    <3>2. CASE purpose.invoice = NoInvoice
      <4>1. Goto(c, via, Tail(c)) /\ Tail(c) \in Steps /\ Tail(c) # "balance"
            BY <1>13, <3>2, TailSteps DEF SettleSession, Steps, purpose
      <4>2. pd = Tail(c)
            BY <1>8, <4>1, CallMoves DEF pd
      <4>3. QED BY <4>1, <4>2
    <3>3. QED BY <3>1, <3>2
  <2>3. QED BY <1>1, <1>2, <1>3, <1>6, <1>7, <2>1, <2>2 DEF AfterInsert, pd
<1>14. CASE ReadBalance(c, via)
  <2>1. pc = "balance" /\ pd \in {"paid", "remind"}
        BY <1>8, <1>14, CallSteps DEF Moved, pd
  <2>2. QED BY <1>1, <1>2, <1>3, <2>1 DEF AfterInsert, pd
<1>15. CASE MarkPaid(c, via)
  <2>1. pc = "paid" /\ pd = "remind"
        BY <1>8, <1>15, CallSteps DEF Moved, pd
  <2>2. QED BY <1>1, <1>2, <1>3, <2>1 DEF AfterInsert, pd
<1>16. CASE StopReminders(c, via)
  <2>1. pc = "remind" /\ pd \in {"installment", "credit", "idle"}
        BY <1>8, <1>16, CallSteps DEF Moved, pd
  <2>2. Goto(c, via, Tail(c)) /\ Tail(c) \in Steps
        BY <1>16, TailSteps DEF StopReminders, Steps
  <2>3. pd = Tail(c)
        BY <1>8, <2>2, CallMoves DEF pd
  <2>4. QED BY <1>1, <1>2, <1>3, <1>6, <2>1, <2>3 DEF AfterInsert, pd
<1>17. CASE PayInstallment(c, via)
  <2>1. pc = "installment" /\ pd \in {"credit", "idle"}
        BY <1>8, <1>17, CallSteps DEF Moved, pd
  <2>2. QED BY <1>1, <1>2, <1>3, <2>1 DEF AfterInsert, pd
<1>18. pd = pc \/ Begin(c, via) \/ SettleStep(c, via) \/ Crash(c, via)
       BY <1>8, OwnCall DEF pd
<1>19. QED BY <1>4, <1>9, <1>10, <1>11, <1>12, <1>13, <1>14, <1>15, <1>16, <1>17, <1>18
           DEF SettleStep

LEMMA RowsFoundedStep ==
    ASSUME TypeOK, Founded, [Next]_vars
    PROVE  RowsAreFounded'
<1>1. Typed
      BY TypedTypes
<1>2. payments \subseteq payments' /\ charged \subseteq charged'
      BY RowsStay
<1>3. ASSUME NEW c \in charged' PROVE checkout'[c].status # "none"
  <2>1. CASE c \in charged
        BY <2>1, ChargedStay
  <2>2. CASE c \notin charged
    <3>1. PICK d \in Checkouts : Charge(d)
          BY <1>1, <1>3, <2>2, RowsAdded
    <3>2. c = d /\ checkout[c].status = "pending" /\ checkout' = checkout
          BY <1>3, <2>2, <3>1 DEF Charge
    <3>3. QED BY <3>2
  <2>3. QED BY <2>1, <2>2
<1>4. ASSUME NEW c \in Checkouts, checkout'[c].status = "settled"
      PROVE  c \in charged' /\ \E p \in payments' : p.of = c
  <2>1. CASE checkout'[c] = checkout[c]
        BY <1>2, <1>4, <2>1 DEF Founded, RowsAreFounded, Settled
  <2>2. ASSUME NEW p \in Purpose, checkout'[c] = [status |-> "pending", purpose |-> p]
        PROVE  FALSE
        BY <1>4, <2>2
  <2>3. ASSUME NEW via \in Vias, SettleFound(c, via) \/ SettleSession(c, via)
        PROVE  c \in charged' /\ \E p \in payments' : p.of = c
    <3>1. settling[<<c, via>>] \in {"found", "settle"}
          BY <2>3 DEF SettleFound, SettleSession, At
    <3>2. c \in charged /\ \E p \in payments : p.of = c
      <4>1. c \in charged
            BY <3>1 DEF Founded, CallsAreFounded, At
      <4>2. CASE settling[<<c, via>>] = "found"
            BY <4>1, <4>2 DEF Founded, CallsAreFounded, At
      <4>3. CASE settling[<<c, via>>] = "settle"
        <5>1. [of |-> c, via |-> via] \in payments
              BY <4>3 DEF Founded, CallsAreFounded, At, AfterInsert
        <5>2. QED BY <4>1, <5>1
      <4>4. QED BY <3>1, <4>2, <4>3
    <3>3. QED BY <1>2, <3>2
  <2>4. QED BY <1>1, <2>1, <2>2, <2>3, OwnCheckout
<1>5. ASSUME NEW p \in payments'
      PROVE  \/ /\ p.via = "cash" /\ p.of \in Clerks
                /\ clerk'[p.of].pc \notin {"new", "insert"}
             \/ p.via \in Vias /\ p.of \in charged'
  <2>1. CASE p \in payments
    <3>1. CASE p.via \in Vias /\ p.of \in charged
          BY <1>2, <3>1
    <3>2. CASE p.via = "cash" /\ p.of \in Clerks /\ clerk[p.of].pc \notin {"new", "insert"}
      <4>1. \A q \in Purpose : ~BeginCash(p.of, q)
            BY <3>2 DEF BeginCash
      <4>2. clerk'[p.of].pc \notin {"new", "insert"}
            BY <1>1, <3>2, <4>1, OwnClerk
      <4>3. QED BY <3>2, <4>2
    <3>3. QED BY <2>1, <3>1, <3>2 DEF Founded, RowsAreFounded
  <2>2. CASE p \notin payments
    <3>1. CASE \E c \in Checkouts, via \in Vias :
                 InsertPayment(c, via) /\ p = [of |-> c, via |-> via]
      <4>1. PICK c \in Checkouts, via \in Vias :
                 InsertPayment(c, via) /\ p = [of |-> c, via |-> via]
            BY <3>1
      <4>2. c \in charged
            BY <4>1 DEF InsertPayment, Founded, CallsAreFounded, At
      <4>3. QED BY <1>2, <4>1, <4>2
    <3>2. CASE \E k \in Clerks : InsertCash(k) /\ p = [of |-> k, via |-> "cash"]
      <4>1. PICK k \in Clerks : InsertCash(k) /\ p = [of |-> k, via |-> "cash"]
            BY <3>2
      <4>2. clerk'[k].pc \in {"installment", "sum"}
            BY <1>1, <4>1 DEF InsertCash, ClerkGoes, Typed
      <4>3. QED BY <4>1, <4>2
    <3>3. QED BY <1>1, <1>5, <2>2, <3>1, <3>2, RowsAdded
  <2>3. QED BY <2>1, <2>2
<1>6. IsFiniteSet(payments')
  <2>1. IsFiniteSet(payments)
        BY DEF Founded, RowsAreFounded
  <2>2. \A x : IsFiniteSet(payments \cup {x})
        BY <2>1, FS_AddElement
  <2>3. payments' = payments \/ \E x : payments' = payments \cup {x}
        BY <1>1, RowsAdded
  <2>4. QED BY <2>1, <2>2, <2>3
<1>7. QED BY <1>3, <1>4, <1>5, <1>6 DEF RowsAreFounded, Settled

-----------------------------------------------------------------------------
(* Types.                                                                  *)

LEMMA FeesInit == Init => TypeOK /\ Founded
<1> SUFFICES ASSUME Init PROVE TypeOK /\ Founded
    OBVIOUS
<1>1. Advance \in Purpose
      BY FeesAssumption DEF Advance, Purpose, Kinds
<1>2. TypeOK
      BY <1>1, FeesAssumption DEF Init, TypeOK, Steps, ClerkSteps, At
<1>3. CallsAreFounded
      BY DEF Init, CallsAreFounded, At, AfterInsert
<1>4. RowsAreFounded
      BY FS_EmptySet DEF Init, RowsAreFounded, Settled
<1>5. QED BY <1>2, <1>3, <1>4 DEF Founded

LEMMA TypeNext == TypeOK /\ Founded /\ [Next]_vars => TypeOK'
<1> SUFFICES ASSUME TypeOK, Founded, [Next]_vars PROVE TypeOK'
    OBVIOUS
<1> DEFINE Calm == /\ \A c \in Checkouts, via \in Vias :
                        /\ At(c, via, "installment")' =>
                              checkout'[c].purpose.installment \in Installments
                        /\ At(c, via, "balance")' => checkout'[c].purpose.invoice \in Invoices
                   /\ sameKey' \in KeyModes /\ cast' \in Casts /\ crashes' \in 0 .. MaxCrashes
<1>1. Typed
      BY TypedTypes
<1>2. CallsAreFounded'
      BY CallsFoundedStep
<1>3. Calm
  <2>1. crashes' \in 0 .. MaxCrashes
    <3>1. crashes \in 0 .. MaxCrashes /\ MaxCrashes \in Nat
          BY FeesAssumption DEF TypeOK
    <3>2. crashes' = crashes \/ (crashes' = crashes + 1 /\ crashes < MaxCrashes)
          BY <1>1, RowsAdded
    <3>3. QED BY <3>1, <3>2
  <2>2. sameKey' \in KeyModes /\ cast' \in Casts
        BY <1>1, RowsAdded DEF TypeOK
  <2>3. QED BY <1>2, <2>1, <2>2 DEF CallsAreFounded, At
<1> HIDE DEF Calm
<1>4. ASSUME settling' \in [Checkouts \X Vias -> Steps],
             checkout' \in [Checkouts -> [status : {"none", "pending", "settled"},
                                          purpose : Purpose]],
             clerk' \in [Clerks -> [pc : ClerkSteps, purpose : Purpose]],
             invoice' \in [Invoices -> {"unpaid", "partial", "paid", "cancelled"}],
             cancel' \in [Invoices -> {"idle", "cancelling", "done"}],
             ignored' \subseteq charged', charged' \subseteq Checkouts, payments' \subseteq Payment,
             credits' \subseteq payments', reminded' \subseteq Invoices
      PROVE  TypeOK'
  <2>1. due' \subseteq Installments
        BY <1>1, RowsAdded DEF TypeOK
  <2>2. QED BY <1>3, <1>4, <2>1 DEF TypeOK, Calm
<1>5. ASSUME NEW c \in Checkouts, NEW p \in Purpose, CreateCheckout(c, p) PROVE TypeOK'
  <2>1. checkout' \in [Checkouts -> [status : {"none", "pending", "settled"},
                                     purpose : Purpose]]
        BY <1>5 DEF CreateCheckout, TypeOK
  <2>2. QED BY <1>4, <1>5, <2>1 DEF CreateCheckout, TypeOK
<1>6. ASSUME NEW c \in Checkouts, Charge(c) \/ Ignore(c) PROVE TypeOK'
      BY <1>4, <1>6 DEF Charge, Ignore, TypeOK
<1>7. ASSUME NEW c \in Checkouts, NEW via \in Vias,
             Begin(c, via) \/ SettleStep(c, via) \/ Crash(c, via)
      PROVE  TypeOK'
  <2>1. settling' \in [Checkouts \X Vias -> Steps]
    <3>1. \E pc \in Steps : Goto(c, via, pc)
          BY <1>7, TailSteps DEF Begin, SettleStep, Crash, LookUp, SettleFound, InsertPayment,
             SettleSession, ReadBalance, MarkPaid, StopReminders, PayInstallment,
             CreditAdvance, Steps
    <3>2. QED BY <1>1, <3>1, CallMoves DEF Calls
  <2>2. MarkSettled(c) => checkout' \in [Checkouts ->
                [status : {"none", "pending", "settled"}, purpose : Purpose]]
        BY DEF MarkSettled, TypeOK
  <2>3. CASE SettleFound(c, via) \/ SettleSession(c, via)
        BY <1>4, <2>1, <2>2, <2>3 DEF SettleFound, SettleSession, TypeOK
  <2>4. CASE InsertPayment(c, via)
    <3>1. [of |-> c, via |-> via] \in Payment
          BY DEF Payment
    <3>2. QED BY <1>4, <2>1, <2>4, <3>1 DEF InsertPayment, TypeOK
  <2>5. CASE MarkPaid(c, via)
    <3>1. invoice' \in [Invoices -> {"unpaid", "partial", "paid", "cancelled"}]
          BY <2>5 DEF MarkPaid, TypeOK
    <3>2. QED BY <1>4, <2>1, <2>5, <3>1 DEF MarkPaid, TypeOK
  <2>6. CASE CreditAdvance(c, via)
    <3>1. [of |-> c, via |-> via] \in payments
          BY <2>6 DEF CreditAdvance, At, Founded, CallsAreFounded, AfterInsert
    <3>2. QED BY <1>4, <2>1, <2>6, <3>1 DEF CreditAdvance, TypeOK
  <2>7. CASE \/ Begin(c, via) \/ LookUp(c, via) \/ ReadBalance(c, via)
             \/ StopReminders(c, via) \/ PayInstallment(c, via) \/ Crash(c, via)
        BY <1>4, <2>1, <2>7 DEF Begin, LookUp, ReadBalance, StopReminders, PayInstallment,
           Crash, TypeOK
  <2>8. QED BY <1>7, <2>3, <2>4, <2>5, <2>6, <2>7 DEF SettleStep
<1>8. ASSUME NEW k \in Clerks, NEW p \in Purpose, BeginCash(k, p) PROVE TypeOK'
  <2>1. clerk' \in [Clerks -> [pc : ClerkSteps, purpose : Purpose]]
        BY <1>8 DEF BeginCash, TypeOK, ClerkSteps
  <2>2. QED BY <1>4, <1>8, <2>1 DEF BeginCash, TypeOK
<1>9. ASSUME NEW k \in Clerks, ClerkStep(k) PROVE TypeOK'
  <2>1. \A pc \in ClerkSteps : ClerkGoes(k, pc) =>
           clerk' \in [Clerks -> [pc : ClerkSteps, purpose : Purpose]]
        BY DEF ClerkGoes, TypeOK
  <2>2. clerk' \in [Clerks -> [pc : ClerkSteps, purpose : Purpose]]
    <3>1. \E pc \in ClerkSteps : ClerkGoes(k, pc)
          BY <1>9 DEF ClerkStep, InsertCash, CashInstallment, SumPayments, WriteStatus,
                      CashStopsReminders, ClerkSteps
    <3>2. QED BY <2>1, <3>1
  <2>3. CASE InsertCash(k)
    <3>1. [of |-> k, via |-> "cash"] \in Payment
          BY DEF Payment
    <3>2. QED BY <1>4, <2>2, <2>3, <3>1 DEF InsertCash, TypeOK
  <2>4. CASE WriteStatus(k)
    <3>1. invoice' \in [Invoices -> {"unpaid", "partial", "paid", "cancelled"}]
          BY <2>4 DEF WriteStatus, TypeOK
    <3>2. QED BY <1>4, <2>2, <2>4, <3>1 DEF WriteStatus, TypeOK
  <2>5. CASE CashInstallment(k) \/ SumPayments(k) \/ CashStopsReminders(k)
        BY <1>4, <2>2, <2>5 DEF CashInstallment, SumPayments, CashStopsReminders, TypeOK
  <2>6. QED BY <1>9, <2>3, <2>4, <2>5 DEF ClerkStep
<1>10. ASSUME NEW i \in Invoices, BeginCancel(i) \/ Cancel(i) PROVE TypeOK'
       BY <1>4, <1>10 DEF BeginCancel, Cancel, TypeOK
<1>11. CASE UNCHANGED vars
       BY <1>4, <1>11 DEF vars, TypeOK
<1>12. QED BY <1>5, <1>6, <1>7, <1>8, <1>9, <1>10, <1>11, NextKinds

LEMMA FeesNext == TypeOK /\ Founded /\ [Next]_vars => (TypeOK /\ Founded)'
BY TypeNext, CallsFoundedStep, RowsFoundedStep DEF Founded

LEMMA FeesFounded == Spec => [](TypeOK /\ Founded)
BY FeesInit, FeesNext, PTL DEF Spec

\* The rows keep their types, and no statement of a settlement is reached for a
\* checkout that has not the invoice or the installment the statement names.
THEOREM FeesTypes == Spec => []TypeOK
BY FeesFounded, PTL

-----------------------------------------------------------------------------
(* One payment for a checkout whose provider names one reference.          *)

LEMMA OneKeyStep ==
    ASSUME TypeOK, Founded, OnePaymentWithOneKey, [Next]_vars
    PROVE  OnePaymentWithOneKey'
<1>1. Typed /\ sameKey' = sameKey
      BY TypedTypes, RowsAdded
<1>2. SUFFICES ASSUME sameKey, OnePayment PROVE OnePayment'
      BY <1>1 DEF OnePaymentWithOneKey
<1>3. ASSUME NEW x, NEW w, payments' = payments \cup {[of |-> x, via |-> w]},
             \A p \in payments : p.of # x
      PROVE  OnePayment'
      BY <1>2, <1>3 DEF OnePayment
<1>4. ASSUME NEW c \in Checkouts, NEW via \in Vias, WithKey(c, via) = {},
             payments' = payments \cup {[of |-> c, via |-> via]}
      PROVE  OnePayment'
  <2>1. \A p \in payments : p.of # c
        BY <1>2, <1>4 DEF WithKey
  <2>2. QED BY <1>3, <1>4, <2>1
<1>5. ASSUME NEW k \in Clerks, InsertCash(k),
             payments' = payments \cup {[of |-> k, via |-> "cash"]}
      PROVE  OnePayment'
  <2>1. k \notin charged
        BY FeesAssumption DEF TypeOK
  <2>2. \A p \in payments : p.of # k
        BY <1>5, <2>1 DEF InsertCash, Founded, RowsAreFounded
  <2>3. QED BY <1>3, <1>5, <2>2
<1>6. CASE UNCHANGED payments
      BY <1>2, <1>6 DEF OnePayment
<1>7. QED BY <1>1, <1>4, <1>5, <1>6, RowsAdded

-----------------------------------------------------------------------------
(* Sums.                                                                   *)

CashAmount == [k \in Clerks |-> clerk[k].purpose.amount]

LEMMA AmountsAreNat ==
    ASSUME TypeOK
    PROVE  /\ \A c \in Checkouts : AmountOf[c] = checkout[c].purpose.amount /\ AmountOf[c] \in Nat
           /\ \A k \in Clerks : CashAmount[k] = clerk[k].purpose.amount /\ CashAmount[k] \in Nat
           /\ \A S : S \subseteq Checkouts => IsFiniteSet(S)
           /\ \A S : S \subseteq Clerks => IsFiniteSet(S)
<1>1. \A p \in Purpose : p.amount \in Nat
      BY FeesAssumption DEF Purpose, Advance
<1>2. (\A c \in Checkouts : checkout[c].purpose \in Purpose)
      /\ (\A k \in Clerks : clerk[k].purpose \in Purpose)
      BY DEF TypeOK
<1>3. IsFiniteSet(Checkouts \cup Clerks)
      BY FeesAssumption
<1>4. \A S : S \subseteq Checkouts \cup Clerks => IsFiniteSet(S)
      BY <1>3, FS_Subset
<1>5. QED BY <1>1, <1>2, <1>4 DEF AmountOf, CashAmount

LEMMA MoneyIsNat ==
    ASSUME TypeOK, NEW i
    PROVE  /\ Cash(i) = SumFunctionOnSet(CashAmount, CashOf(i)) /\ Cash(i) \in Nat
           /\ Amounts(ChargedOf(i)) \in Nat
           /\ CashOf(i) \subseteq Clerks /\ ChargedOf(i) \subseteq Checkouts
<1>1. CashOf(i) \subseteq Clerks /\ ChargedOf(i) \subseteq Checkouts
      BY DEF CashOf, ChargedOf, TypeOK
<1>2. /\ IsFiniteSet(CashOf(i)) /\ \A k \in CashOf(i) : CashAmount[k] \in Nat
      /\ IsFiniteSet(ChargedOf(i)) /\ \A c \in ChargedOf(i) : AmountOf[c] \in Nat
      BY <1>1, AmountsAreNat
<1>3. Cash(i) = SumFunctionOnSet(CashAmount, CashOf(i))
      BY DEF Cash, CashAmount
<1>4. QED BY <1>1, <1>2, <1>3, SumIsNat DEF Amounts

\* Sums of two moments: what the one counts the other counts too, for as much.
LEMMA SumGrows ==
    ASSUME NEW f, NEW g, NEW S, NEW T, IsFiniteSet(T), S \subseteq T,
           \A x \in T : g[x] \in Nat, \A x \in S : f[x] = g[x]
    PROVE  SumFunctionOnSet(f, S) <= SumFunctionOnSet(g, T)
<1>1. IsFiniteSet(S)
      BY FS_Subset
<1>2. SumFunctionOnSet(f, S) = SumFunctionOnSet(g, S)
      BY <1>1, SumOfEqual
<1>3. SumFunctionOnSet(g, S) <= SumFunctionOnSet(g, T)
      BY SumOfPart
<1>4. QED BY <1>2, <1>3

\* Money paid stays paid.
LEMMA MoneyGrows ==
    ASSUME TypeOK, Founded, [Next]_vars, TypeOK', NEW i
    PROVE  Money(i) <= Money(i)' /\ Money(i) \in Nat /\ Money(i)' \in Nat
<1>1. Typed /\ payments \subseteq payments'
      BY TypedTypes, RowsStay
<1>2. Cash(i) <= Cash(i)' /\ Cash(i) \in Nat /\ Cash(i)' \in Nat
  <2> DEFINE g == [k \in Clerks |-> clerk'[k].purpose.amount]
             S == CashOf(i)
             T == CashOf(i)'
  <2>1. \A k \in S : clerk'[k].purpose = clerk[k].purpose
    <3>1. TAKE k \in S
    <3>2. k \in Clerks /\ [of |-> k, via |-> "cash"] \in payments
          BY DEF CashOf
    <3>3. clerk[k].pc \notin {"new", "insert"}
          BY <3>2 DEF Founded, RowsAreFounded, Vias
    <3>4. \A p \in Purpose : ~BeginCash(k, p)
          BY <3>3 DEF BeginCash
    <3>5. QED BY <1>1, <3>2, <3>4, OwnClerk
  <2>2. S \subseteq T
        BY <1>1, <2>1 DEF CashOf
  <2>3. IsFiniteSet(T) /\ (\A k \in T : g[k] \in Nat)
    <3>1. \A k \in Clerks : clerk'[k].purpose \in Purpose
          BY DEF TypeOK
    <3>2. \A p \in Purpose : p.amount \in Nat
          BY FeesAssumption DEF Purpose, Advance
    <3>3. T \subseteq Clerks
          BY DEF CashOf
    <3>4. QED BY <3>1, <3>2, <3>3, AmountsAreNat
  <2>4. \A k \in S : CashAmount[k] = g[k]
        BY <2>1 DEF CashAmount, CashOf
  <2>5. Cash(i)' = SumFunctionOnSet(g, T)
        BY DEF Cash
  <2> HIDE DEF g, S, T
  <2>6. SumFunctionOnSet(CashAmount, S) <= SumFunctionOnSet(g, T)
        BY <2>2, <2>3, <2>4, SumGrows
  <2>7. SumFunctionOnSet(g, T) \in Nat
        BY <2>3, SumIsNat
  <2>8. QED BY <2>5, <2>6, <2>7, MoneyIsNat DEF S
<1>3. /\ Amounts(ChargedOf(i)) <= Amounts(ChargedOf(i))'
      /\ Amounts(ChargedOf(i)) \in Nat /\ Amounts(ChargedOf(i))' \in Nat
  <2> DEFINE g == [c \in Checkouts |-> checkout'[c].purpose.amount]
             S == ChargedOf(i)
             T == ChargedOf(i)'
  <2>1. \A c \in S : c \in charged' /\ checkout'[c].purpose = checkout[c].purpose
        BY ChargedStay DEF ChargedOf
  <2>2. S \subseteq T
        BY <2>1 DEF ChargedOf
  <2>3. IsFiniteSet(T) /\ (\A c \in T : g[c] \in Nat)
    <3>1. \A c \in Checkouts : checkout'[c].purpose \in Purpose
          BY DEF TypeOK
    <3>2. \A p \in Purpose : p.amount \in Nat
          BY FeesAssumption DEF Purpose, Advance
    <3>3. T \subseteq Checkouts
          BY DEF ChargedOf, TypeOK
    <3>4. QED BY <3>1, <3>2, <3>3, AmountsAreNat
  <2>4. \A c \in S : AmountOf[c] = g[c]
        BY <2>1 DEF AmountOf, ChargedOf, TypeOK
  <2>5. Amounts(ChargedOf(i))' = SumFunctionOnSet(g, T)
        BY DEF Amounts, AmountOf
  <2> HIDE DEF g, S, T
  <2>6. SumFunctionOnSet(AmountOf, S) <= SumFunctionOnSet(g, T)
        BY <2>2, <2>3, <2>4, SumGrows
  <2>7. SumFunctionOnSet(g, T) \in Nat
        BY <2>3, SumIsNat
  <2>8. QED BY <2>5, <2>6, <2>7, MoneyIsNat DEF S, Amounts
<1>4. QED BY <1>2, <1>3 DEF Money

\* The payments recorded for an invoice are no more than the money paid for it.
LEMMA RecordedIsPaid ==
    ASSUME TypeOK, Founded, OnePayment, NEW i
    PROVE  /\ Recorded(i) \in Nat /\ Money(i) \in Nat
           /\ Recorded(i) <= Money(i)
<1> DEFINE f == [p \in payments |-> PurposeOf(p).amount]
           e == [p \in payments |-> p.of]
           P == {p \in payments : PurposeOf(p).invoice = i}
           InCash == {p \in P : p.via = "cash"}
           Online == {p \in P : p.via # "cash"}
           Payers == {e[p] : p \in InCash}
           Paid == {e[p] : p \in Online}
<1>1. \A p \in payments : p = [of |-> p.of, via |-> p.via]
      BY DEF TypeOK, Payment
<1>2. \A p \in payments :
         \/ p.via = "cash" /\ p.of \in Clerks
         \/ p.via # "cash" /\ p.of \in charged /\ p.of \in Checkouts
      BY DEF Founded, RowsAreFounded, Vias, TypeOK
<1>3. \A p \in InCash : e[p] \in Clerks /\ f[p] = CashAmount[e[p]] /\ f[p] \in Nat
      BY <1>2, AmountsAreNat DEF PurposeOf
<1>4. \A p \in Online : e[p] \in Checkouts /\ f[p] = AmountOf[e[p]] /\ f[p] \in Nat
      BY <1>2, AmountsAreNat DEF PurposeOf
<1>5. Payers \subseteq CashOf(i)
      BY <1>1, <1>2 DEF CashOf, PurposeOf
<1>6. Paid \subseteq ChargedOf(i)
      BY <1>2 DEF ChargedOf, PurposeOf
<1>7. \A p, q \in P : e[p] = e[q] => p = q
      BY DEF OnePayment
<1>8. P = InCash \cup Online /\ InCash \cap Online = {}
      OBVIOUS
<1>9. IsFiniteSet(InCash) /\ IsFiniteSet(Online)
      BY FS_Subset DEF Founded, RowsAreFounded
<1>10. Recorded(i) = SumFunctionOnSet(f, P)
       BY DEF Recorded
<1>11. /\ IsFiniteSet(CashOf(i)) /\ \A k \in CashOf(i) : CashAmount[k] \in Nat
       /\ IsFiniteSet(ChargedOf(i)) /\ \A c \in ChargedOf(i) : AmountOf[c] \in Nat
       BY MoneyIsNat, AmountsAreNat
<1>12. \A p \in P : f[p] \in Nat
       BY <1>3, <1>4, <1>8
<1>13. /\ \A p, q \in InCash : e[p] = e[q] => p = q
       /\ \A p, q \in Online : e[p] = e[q] => p = q
       BY <1>7, <1>8
<1> HIDE DEF f, e, P, InCash, Online
<1>14. SumFunctionOnSet(f, P) = SumFunctionOnSet(f, InCash) + SumFunctionOnSet(f, Online)
       BY <1>8, <1>9, <1>12, SumOfUnion
<1>15. SumFunctionOnSet(f, InCash) = SumFunctionOnSet(CashAmount, Payers)
       BY <1>3, <1>9, <1>13, SumRenamed
<1>16. SumFunctionOnSet(f, Online) = SumFunctionOnSet(AmountOf, Paid)
       BY <1>4, <1>9, <1>13, SumRenamed
<1>17. SumFunctionOnSet(f, InCash) \in Nat /\ SumFunctionOnSet(f, Online) \in Nat
       BY <1>3, <1>4, <1>9, SumIsNat
<1> HIDE DEF Payers, Paid
<1>18. SumFunctionOnSet(CashAmount, Payers) <= SumFunctionOnSet(CashAmount, CashOf(i))
       BY <1>5, <1>11, SumOfPart
<1>19. SumFunctionOnSet(AmountOf, Paid) <= SumFunctionOnSet(AmountOf, ChargedOf(i))
       BY <1>6, <1>11, SumOfPart
<1>20. /\ Cash(i) = SumFunctionOnSet(CashAmount, CashOf(i)) /\ Cash(i) \in Nat
       /\ SumFunctionOnSet(AmountOf, ChargedOf(i)) \in Nat
       /\ Money(i) = Cash(i) + SumFunctionOnSet(AmountOf, ChargedOf(i))
       BY MoneyIsNat DEF Money, Amounts
<1>21. QED BY <1>10, <1>14, <1>15, <1>16, <1>17, <1>18, <1>19, <1>20

\* Neither do the settled sessions of an invoice count more.
LEMMA SettledIsCharged ==
    ASSUME TypeOK, Founded, NEW i
    PROVE  /\ Amounts(SettledOf(i)) \in Nat /\ Money(i) \in Nat
           /\ Amounts(SettledOf(i)) <= Money(i)
<1>1. SettledOf(i) \subseteq ChargedOf(i)
      BY DEF SettledOf, ChargedOf, Founded, RowsAreFounded
<1>2. /\ IsFiniteSet(ChargedOf(i)) /\ \A c \in ChargedOf(i) : AmountOf[c] \in Nat
      BY MoneyIsNat, AmountsAreNat
<1>3. IsFiniteSet(SettledOf(i)) /\ \A c \in SettledOf(i) : AmountOf[c] \in Nat
      BY <1>1, <1>2, FS_Subset
<1>4. /\ Amounts(SettledOf(i)) \in Nat
      /\ Amounts(SettledOf(i)) <= Amounts(ChargedOf(i))
      BY <1>1, <1>2, <1>3, SumIsNat, SumOfPart DEF Amounts
<1>5. QED BY <1>4, MoneyIsNat DEF Money

-----------------------------------------------------------------------------
(* Invoices.                                                               *)

\* An invoice is written by settleSuccess, by createPayment and by deleteInvoice.
LEMMA OwnInvoice ==
    ASSUME Typed, [Next]_vars, NEW i \in Invoices
    PROVE  \/ invoice'[i] = invoice[i]
           \/ \E c \in Checkouts, via \in Vias :
                 MarkPaid(c, via) /\ checkout[c].purpose.invoice = i /\ invoice'[i] = "paid"
           \/ \E k \in Clerks : /\ WriteStatus(k) /\ clerk[k].purpose.invoice = i
                                /\ invoice'[i] = clerk[k].pc
           \/ Cancel(i) /\ invoice'[i] = "cancelled"
<1>1. ASSUME NEW j, NEW s, invoice' = [invoice EXCEPT ![j] = s]
      PROVE  invoice'[i] = invoice[i] \/ (i = j /\ invoice'[i] = s)
      BY <1>1 DEF Typed
<1>2. ASSUME UNCHANGED invoice PROVE invoice'[i] = invoice[i]
      BY <1>2
<1>3. CASE \E c \in Checkouts, via \in Vias : MarkPaid(c, via)
      BY <1>1, <1>3 DEF MarkPaid
<1>4. CASE \E c \in Checkouts, via \in Vias :
              \/ Begin(c, via) \/ Crash(c, via) \/ LookUp(c, via) \/ SettleFound(c, via)
              \/ SettleSession(c, via) \/ ReadBalance(c, via) \/ InsertPayment(c, via)
              \/ StopReminders(c, via) \/ PayInstallment(c, via) \/ CreditAdvance(c, via)
      BY <1>2, <1>4 DEF Begin, Crash, LookUp, SettleFound, SettleSession, ReadBalance,
                  InsertPayment, StopReminders, PayInstallment, CreditAdvance
<1>5. CASE \E c \in Checkouts : (\E p \in Purpose : CreateCheckout(c, p)) \/ Charge(c) \/ Ignore(c)
      BY <1>2, <1>5 DEF CreateCheckout, Charge, Ignore
<1>6. CASE \E k \in Clerks : WriteStatus(k)
      BY <1>1, <1>6 DEF WriteStatus
<1>7. CASE \E k \in Clerks :
              \/ \E p \in Purpose : BeginCash(k, p)
              \/ InsertCash(k) \/ CashInstallment(k) \/ SumPayments(k)
              \/ CashStopsReminders(k)
      BY <1>2, <1>7 DEF BeginCash, InsertCash, CashInstallment, SumPayments,
                        CashStopsReminders
<1>8. CASE \E j \in Invoices : BeginCancel(j)
      BY <1>2, <1>8 DEF BeginCancel
<1>9. CASE \E j \in Invoices : Cancel(j)
  <2>1. PICK j \in Invoices : Cancel(j)
        BY <1>9
  <2>2. invoice' = [invoice EXCEPT ![j] = "cancelled"]
        BY <2>1 DEF Cancel
  <2>3. QED BY <1>1, <2>1, <2>2
<1>10. CASE UNCHANGED vars
       BY <1>2, <1>10 DEF vars
<1>11. QED BY <1>3, <1>4, <1>5, <1>6, <1>7, <1>8, <1>9, <1>10, NextKinds
           DEF SettleStep, ClerkStep

\* An invoice is paid, or a handler has decided that it is.
Claimed(i) ==
    \/ invoice[i] = "paid"
    \/ \E k \in Clerks : clerk[k].pc = "paid" /\ clerk[k].purpose.invoice = i
    \/ \E c \in Checkouts, via \in Vias :
          At(c, via, "paid") /\ checkout[c].purpose.invoice = i

ClaimsAreEarned == sameKey => \A i \in Invoices : Claimed(i) => Money(i) >= Total

LEMMA ClaimsStep ==
    ASSUME TypeOK, Founded, OnePaymentWithOneKey, ClaimsAreEarned, [Next]_vars, TypeOK'
    PROVE  ClaimsAreEarned'
<1>1. Typed /\ sameKey' = sameKey
      BY TypedTypes, RowsAdded
<1>2. SUFFICES ASSUME sameKey, OnePayment, NEW i \in Invoices, Claimed(i)'
               PROVE  Money(i)' >= Total
      BY <1>1 DEF ClaimsAreEarned, OnePaymentWithOneKey
<1>3. /\ Money(i) <= Money(i)' /\ Money(i) \in Nat /\ Money(i)' \in Nat
      /\ Total \in Nat
      BY MoneyGrows, FeesAssumption
<1>4. CASE Claimed(i)
      BY <1>2, <1>3, <1>4 DEF ClaimsAreEarned
<1>5. CASE ~Claimed(i) /\ invoice'[i] = "paid"
  <2>1. ~\E c \in Checkouts, via \in Vias :
           MarkPaid(c, via) /\ checkout[c].purpose.invoice = i
        BY <1>5 DEF Claimed, MarkPaid
  <2>2. ~\E k \in Clerks : clerk[k].purpose.invoice = i /\ clerk[k].pc = "paid"
        BY <1>5 DEF Claimed
  <2>3. QED BY <1>1, <1>5, <2>1, <2>2, OwnInvoice DEF Claimed
<1>6. ASSUME ~Claimed(i), NEW k \in Clerks, clerk'[k].pc = "paid",
             clerk'[k].purpose.invoice = i
      PROVE  Money(i) >= Total
  <2>1. clerk'[k] # clerk[k]
        BY <1>6 DEF Claimed
  <2>2. ClerkStep(k) /\ clerk[k].purpose.invoice = i
    <3>1. ASSUME NEW p, clerk'[k] = [pc |-> "insert", purpose |-> p] PROVE FALSE
          BY <1>6, <3>1
    <3>2. ClerkStep(k) /\ clerk'[k].purpose = clerk[k].purpose
          BY <1>1, <2>1, <3>1, OwnClerk
    <3>3. QED BY <1>6, <3>2
  <2>3. SumPayments(k) /\ clerk'[k].pc = IF Recorded(i) >= Total THEN "paid" ELSE "partial"
    <3>1. \A pc : ClerkGoes(k, pc) => clerk'[k].pc = pc
          BY <1>1 DEF ClerkGoes, Typed
    <3>2. ~(InsertCash(k) \/ CashInstallment(k) \/ WriteStatus(k) \/ CashStopsReminders(k))
          BY <1>6, <3>1 DEF InsertCash, CashInstallment, WriteStatus, CashStopsReminders
    <3>3. SumPayments(k)
          BY <2>2, <3>2 DEF ClerkStep
    <3>4. QED BY <2>2, <3>1, <3>3 DEF SumPayments
  <2>4. Recorded(i) >= Total
        BY <1>6, <2>3
  <2>5. QED BY <1>2, <1>3, <2>4, RecordedIsPaid
<1>7. ASSUME ~Claimed(i), NEW c \in Checkouts, NEW via \in Vias,
             settling'[<<c, via>>] = "paid", checkout'[c].purpose.invoice = i
      PROVE  Money(i) >= Total
  <2>1. c \in charged
    <3>1. \A pc : settling'[<<c, via>>] = settling[<<c, via>>] => ~At(c, via, "idle")
          BY <1>7 DEF At
    <3>2. ~Begin(c, via)
          BY <1>1, <1>7, CallSteps DEF Moved
    <3>3. ASSUME SettleStep(c, via) \/ Crash(c, via) PROVE ~At(c, via, "idle")
          BY <3>3 DEF SettleStep, Crash, LookUp, InsertPayment, SettleFound, SettleSession,
             ReadBalance, MarkPaid, StopReminders, PayInstallment, CreditAdvance, At
    <3>4. ~At(c, via, "idle")
          BY <1>1, <3>1, <3>2, <3>3, OwnCall
    <3>5. QED BY <3>4 DEF Founded, CallsAreFounded
  <2>2. checkout[c].purpose.invoice = i
        BY <1>7, <2>1, ChargedStay
  <2>3. settling'[<<c, via>>] # settling[<<c, via>>]
        BY <1>7, <2>2 DEF Claimed, At
  <2>4. ReadBalance(c, via)
    <3>1. \A from, to : Moved(c, via, from, to) => "paid" \in to
          BY <1>7 DEF Moved
    <3>2. QED BY <1>1, <2>3, <3>1, CallSteps, OwnCall DEF SettleStep
  <2>5. Amounts(SettledOf(i)) >= Total
    <3>1. SUFFICES ASSUME ~(Amounts(SettledOf(i)) >= Total) PROVE FALSE
          OBVIOUS
    <3>2. Goto(c, via, "remind") /\ "remind" \in Steps
          BY <2>2, <2>4, <3>1 DEF ReadBalance, Steps
    <3>3. QED BY <1>1, <1>7, <3>2, CallMoves
  <2>6. QED BY <1>3, <2>5, SettledIsCharged
<1>8. \/ invoice'[i] = "paid"
      \/ \E k \in Clerks : clerk'[k].pc = "paid" /\ clerk'[k].purpose.invoice = i
      \/ \E c \in Checkouts, via \in Vias :
            settling'[<<c, via>>] = "paid" /\ checkout'[c].purpose.invoice = i
      BY <1>2 DEF Claimed, At
<1>9. ASSUME Money(i) >= Total PROVE Money(i)' >= Total
      BY <1>3, <1>9
<1>10. CASE ~Claimed(i) /\ invoice'[i] # "paid"
  <2>1. Money(i) >= Total
        BY <1>6, <1>7, <1>8, <1>10
  <2>2. QED BY <1>9, <2>1
<1>11. QED BY <1>4, <1>5, <1>10

LEMMA FeesClaims == Spec => [](TypeOK /\ Founded /\ OnePaymentWithOneKey /\ ClaimsAreEarned)
<1>1. Init => OnePaymentWithOneKey
      BY DEF Init, OnePaymentWithOneKey, OnePayment
<1>2. Init => ClaimsAreEarned
  <2>1. SUFFICES ASSUME Init, NEW i \in Invoices PROVE ~Claimed(i)
        BY DEF ClaimsAreEarned
  <2>2. \A c \in Checkouts, via \in Vias : ~At(c, via, "paid")
        BY <2>1 DEF Init, At
  <2>3. QED BY <2>1, <2>2 DEF Init, Claimed
<1>3. /\ TypeOK /\ Founded /\ OnePaymentWithOneKey /\ ClaimsAreEarned /\ [Next]_vars
      => (TypeOK /\ Founded /\ OnePaymentWithOneKey /\ ClaimsAreEarned)'
      BY FeesNext, OneKeyStep, ClaimsStep
<1>4. QED BY FeesInit, <1>1, <1>2, <1>3, PTL DEF Spec

\* However webhooks, verify requests, payments at the bursar's and crashes
\* interleave: a checkout of a provider that names one reference is recorded
\* once (provider_reference is unique), a session settles after its payment is
\* recorded, and settleSuccess and createPayment mark no invoice as paid for
\* which less than its amount was paid.
THEOREM FeesAreEarned == Spec => []NothingUnearned
<1>1. TypeOK /\ Founded /\ OnePaymentWithOneKey /\ ClaimsAreEarned => NothingUnearned
      BY DEF Founded, RowsAreFounded, ClaimsAreEarned, Claimed, NothingUnearned,
             SettledIsPaidFor, PaidIsEarned
<1>2. QED BY <1>1, FeesClaims, PTL

-----------------------------------------------------------------------------
(* Calls that nothing cuts short.                                          *)

\* What a recorded payment has not done yet, its own call is about to do.
PaymentsArePursued ==
    crashes = 0 => \A c \in Checkouts, via \in Vias :
        [of |-> c, via |-> via] \in payments =>
            /\ checkout[c].purpose.installment \in due =>
                  settling[<<c, via>>] \in {"settle", "balance", "paid", "remind", "installment"}
            /\ checkout[c].purpose.kind = "advance" =>
                  \/ [of |-> c, via |-> via] \in credits
                  \/ settling[<<c, via>>] \in AfterInsert
            /\ c \notin Settled => settling[<<c, via>>] = "settle"

\* Nothing was cut short before the step either, nor is anything in it.
LEMMA NoCrash ==
    ASSUME TypeOK, [Next]_vars, crashes' = 0
    PROVE  crashes = 0 /\ \A c, via : ~Crash(c, via)
<1>1. crashes \in Nat
      BY FeesAssumption DEF TypeOK
<1>2. crashes' = crashes \/ crashes' = crashes + 1
      BY TypedTypes, RowsAdded
<1>3. QED BY <1>1, <1>2 DEF Crash

LEMMA PursuedStep ==
    ASSUME TypeOK, Founded, PaymentsArePursued, [Next]_vars
    PROVE  PaymentsArePursued'
<1> SUFFICES ASSUME crashes' = 0, NEW c \in Checkouts, NEW via \in Vias,
                    [of |-> c, via |-> via] \in payments'
             PROVE  /\ checkout'[c].purpose.installment \in due' =>
                          settling'[<<c, via>>] \in
                             {"settle", "balance", "paid", "remind", "installment"}
                    /\ checkout'[c].purpose.kind = "advance" =>
                          \/ [of |-> c, via |-> via] \in credits'
                          \/ settling'[<<c, via>>] \in AfterInsert
                    /\ c \notin Settled' => settling'[<<c, via>>] = "settle"
    BY DEF PaymentsArePursued
<1> DEFINE row == [of |-> c, via |-> via]
           pc == settling[<<c, via>>]
           pd == settling'[<<c, via>>]
           Done == /\ checkout'[c].purpose.installment \in due' =>
                         pd \in {"settle", "balance", "paid", "remind", "installment"}
                   /\ checkout'[c].purpose.kind = "advance" =>
                         row \in credits' \/ pd \in AfterInsert
                   /\ c \notin Settled' => pd = "settle"
<1> SUFFICES Done
    OBVIOUS
<1>1. Typed /\ crashes = 0 /\ ~Crash(c, via)
      BY TypedTypes, NoCrash
<1>2. CASE row \notin payments
  <2>1. \A k : row # [of |-> k, via |-> "cash"]
        BY DEF Vias
  <2>2. \A d, w : row = [of |-> d, via |-> w] => d = c /\ w = via
        OBVIOUS
  <2>3. pd = "settle"
    <3>1. payments' # payments
          BY <1>2
    <3>2. ~\E k \in Clerks : payments' = payments \cup {[of |-> k, via |-> "cash"]}
          BY <1>2, <2>1
    <3>3. PICK d \in Checkouts, w \in Vias :
                 /\ payments' = payments \cup {[of |-> d, via |-> w]}
                 /\ settling'[<<d, w>>] = "settle"
          BY <1>1, <3>1, <3>2, RowsAdded
    <3>4. row = [of |-> d, via |-> w]
          BY <1>2, <3>3
    <3>5. QED BY <2>2, <3>3, <3>4
  <2> HIDE DEF pd, row
  <2>4. QED BY <2>3 DEF AfterInsert
<1>3. CASE row \in payments
  <2> DEFINE inst == checkout[c].purpose.installment
             kind == checkout[c].purpose.kind
  <2>1. /\ inst \in due => pc \in {"settle", "balance", "paid", "remind", "installment"}
        /\ kind = "advance" => row \in credits \/ pc \in AfterInsert
        /\ c \notin Settled => pc = "settle"
        BY <1>1, <1>3 DEF PaymentsArePursued
  <2>2. c \in charged
    <3>1. row.via \in Vias /\ row.of = c /\ "cash" \notin Vias
          BY DEF Vias
    <3>2. QED BY <1>3, <3>1 DEF Founded, RowsAreFounded
  <2>3. /\ checkout'[c].purpose.installment = inst /\ checkout'[c].purpose.kind = kind
        /\ c \in Settled => c \in Settled'
        /\ due' \subseteq due /\ credits \subseteq credits'
        BY <1>1, <2>2, ChargedStay, RowsAdded, RowsStay DEF Settled
  <2>4. NoInstallment \notin due
        BY FeesAssumption DEF TypeOK, Installments, NoInstallment
  <2>5. /\ Tail(c) # "installment" => inst = NoInstallment
        /\ Tail(c) = "idle" => kind # "advance"
        BY DEF Tail
  <2> DEFINE Same == /\ checkout'[c].purpose.installment = inst
                     /\ checkout'[c].purpose.kind = kind
                     /\ c \in Settled => c \in Settled'
                     /\ due' \subseteq due /\ credits \subseteq credits'
                     /\ NoInstallment \notin due
                     /\ inst \in due =>
                           pc \in {"settle", "balance", "paid", "remind", "installment"}
                     /\ kind = "advance" => row \in credits \/ pc \in AfterInsert
                     /\ c \notin Settled => pc = "settle"
  <2>6. Same
        BY <2>1, <2>3, <2>4
  <2>7. ASSUME SettleFound(c, via) \/ SettleSession(c, via) PROVE c \in Settled'
    <3>1. MarkSettled(c)
          BY <2>7 DEF SettleFound, SettleSession
    <3>2. QED BY <1>1, <3>1 DEF MarkSettled, Settled, Typed
  <2> HIDE DEF inst, kind, pd, row
  <2>8. CASE pd = pc
        BY <2>6, <2>8
  <2>9. CASE Begin(c, via) \/ LookUp(c, via) \/ SettleFound(c, via) \/ InsertPayment(c, via)
    <3>1. pc \in {"idle", "read", "found", "insert"}
          BY <1>1, <2>9, CallSteps DEF Moved
    <3>2. QED BY <2>6, <3>1 DEF AfterInsert
  <2>10. CASE SettleSession(c, via)
    <3>1. pd = "balance" \/ pd = Tail(c)
      <4>1. \A to \in Steps : Goto(c, via, to) => pd = to
            BY <1>1, CallMoves DEF pd
      <4>2. "balance" \in Steps /\ Tail(c) \in Steps
            BY TailSteps DEF Steps
      <4>3. Goto(c, via, "balance") \/ Goto(c, via, Tail(c))
            BY <2>10 DEF SettleSession
      <4>4. QED BY <4>1, <4>2, <4>3
    <3>2. QED BY <2>5, <2>6, <2>7, <2>10, <3>1, TailSteps DEF AfterInsert
  <2>11. CASE ReadBalance(c, via) \/ MarkPaid(c, via)
    <3>1. pc # "settle" /\ pd \in {"paid", "remind"}
          BY <1>1, <2>11, CallSteps DEF Moved, pd
    <3>2. QED BY <2>6, <3>1 DEF AfterInsert
  <2>12. CASE StopReminders(c, via)
    <3>1. pc = "remind"
          BY <2>12 DEF StopReminders, At
    <3>2. pd = Tail(c)
      <4>1. Goto(c, via, Tail(c)) /\ Tail(c) \in Steps
            BY <2>12, TailSteps DEF StopReminders, Steps
      <4>2. QED BY <1>1, <4>1, CallMoves DEF pd
    <3>3. QED BY <2>5, <2>6, <3>1, <3>2, TailSteps DEF AfterInsert
  <2>13. CASE PayInstallment(c, via)
    <3>1. pc = "installment" /\ inst \notin due'
          BY <2>13 DEF PayInstallment, At, inst
    <3>2. kind = "advance" => pd = "credit"
      <4>1. kind = "advance" => Goto(c, via, "credit") /\ "credit" \in Steps
            BY <2>13 DEF PayInstallment, Steps, kind
      <4>2. QED BY <1>1, <4>1, CallMoves DEF pd
    <3>3. QED BY <2>6, <3>1, <3>2 DEF AfterInsert
  <2>14. CASE CreditAdvance(c, via)
    <3>1. pc = "credit" /\ row \in credits'
          BY <2>14 DEF CreditAdvance, At, row
    <3>2. QED BY <2>6, <3>1
  <2>15. QED BY <1>1, <2>8, <2>9, <2>10, <2>11, <2>12, <2>13, <2>14, OwnCall
             DEF SettleStep, pd, row
<1>4. QED BY <1>2, <1>3

\* Nobody but the settling calls writes to invoices.
Undisturbed == /\ crashes = 0
               /\ \A k \in Clerks : clerk[k].pc = "new"
               /\ \A i \in Invoices : cancel[i] = "idle"

\* A call of one of its checkouts is about to mark the invoice as paid.
Pursued(i) == \E c \in Checkouts, via \in Vias :
                 /\ settling[<<c, via>>] \in {"settle", "balance", "paid"}
                 /\ checkout[c].purpose.invoice = i

CoverIsPursued ==
    Undisturbed => \A i \in Invoices :
        Amounts(SettledOf(i)) >= Total => invoice[i] = "paid" \/ Pursued(i)

LEMMA UndisturbedBefore ==
    ASSUME TypeOK, [Next]_vars, Undisturbed', NEW i \in Invoices
    PROVE  Undisturbed /\ (invoice'[i] = invoice[i] \/ invoice'[i] = "paid")
<1>1. Typed
      BY TypedTypes
<1>2. /\ crashes' = 0
      /\ \A k \in Clerks : clerk'[k].pc = "new"
      /\ \A j \in Invoices : cancel'[j] = "idle"
      BY DEF Undisturbed
<1>3. crashes = 0
      BY <1>2, NoCrash
<1>4. ASSUME NEW k \in Clerks PROVE clerk[k].pc = "new"
  <2>1. ASSUME NEW p, clerk'[k] = [pc |-> "insert", purpose |-> p] PROVE FALSE
        BY <1>2, <2>1
  <2>2. QED BY <1>1, <1>2, <2>1, OwnClerk
<1>5. \A j \in Invoices : ~Cancel(j) /\ ~BeginCancel(j)
  <2>1. ASSUME NEW j \in Invoices, NEW s, s # "idle", cancel' = [cancel EXCEPT ![j] = s]
        PROVE  FALSE
        BY <1>1, <1>2, <2>1 DEF Typed
  <2>2. QED BY <2>1 DEF Cancel, BeginCancel
<1>6. UNCHANGED cancel
  <2>1. CASE \E c \in Checkouts, w \in Vias : Begin(c, w) \/ SettleStep(c, w) \/ Crash(c, w)
        BY <2>1 DEF Begin, SettleStep, Crash, LookUp, InsertPayment, SettleFound,
           SettleSession, ReadBalance, MarkPaid, StopReminders, PayInstallment, CreditAdvance
  <2>2. CASE \E c \in Checkouts : (\E p \in Purpose : CreateCheckout(c, p)) \/ Charge(c) \/ Ignore(c)
        BY <2>2 DEF Charge, Ignore, CreateCheckout
  <2>3. CASE \E k \in Clerks : (\E p \in Purpose : BeginCash(k, p)) \/ ClerkStep(k)
        BY <2>3 DEF BeginCash, ClerkStep, InsertCash, CashInstallment, SumPayments,
                    WriteStatus, CashStopsReminders
  <2>4. CASE UNCHANGED vars
        BY <2>4 DEF vars
  <2>5. QED BY <1>5, <2>1, <2>2, <2>3, <2>4, NextKinds
<1>7. \A k \in Clerks : ~WriteStatus(k)
      BY <1>4 DEF WriteStatus
<1>8. invoice'[i] = invoice[i] \/ invoice'[i] = "paid"
      BY <1>1, <1>5, <1>7, OwnInvoice
<1>9. QED BY <1>2, <1>3, <1>4, <1>6, <1>8 DEF Undisturbed

\* What the settled sessions of an invoice add up to changes with them only.
LEMMA SameAmounts ==
    ASSUME TypeOK, Founded, [Next]_vars, NEW i, SettledOf(i)' = SettledOf(i)
    PROVE  Amounts(SettledOf(i))' = Amounts(SettledOf(i))
<1> DEFINE g == [c \in Checkouts |-> checkout'[c].purpose.amount]
           S == SettledOf(i)
<1>1. \A c \in S : c \in charged /\ c \in Checkouts
      BY DEF SettledOf, Settled, Founded, RowsAreFounded
<1>2. \A c \in S : AmountOf[c] = g[c]
      BY <1>1, ChargedStay DEF AmountOf
<1>3. IsFiniteSet(S)
      BY <1>1, AmountsAreNat
<1>4. Amounts(SettledOf(i))' = SumFunctionOnSet(g, S)
      BY DEF Amounts, AmountOf
<1> HIDE DEF g, S
<1>5. QED BY <1>2, <1>3, <1>4, SumOfEqual DEF Amounts, S

LEMMA CoverStep ==
    ASSUME TypeOK, Founded, PaymentsArePursued, CoverIsPursued, [Next]_vars
    PROVE  CoverIsPursued'
<1> SUFFICES ASSUME Undisturbed', NEW i \in Invoices,
                    Amounts(SettledOf(i))' >= Total, invoice'[i] # "paid"
             PROVE  Pursued(i)'
    BY DEF CoverIsPursued
<1>1. Typed /\ Undisturbed /\ invoice[i] # "paid" /\ crashes = 0
  <2>1. Undisturbed /\ invoice[i] # "paid"
        BY UndisturbedBefore
  <2>2. QED BY <2>1, TypedTypes DEF Undisturbed
<1>2. \A c, via : ~Crash(c, via)
      BY NoCrash DEF Undisturbed
<1>3. ASSUME NEW c \in Checkouts, NEW via \in Vias, c \in charged,
             checkout[c].purpose.invoice = i,
             settling'[<<c, via>>] \in {"settle", "balance", "paid"}
      PROVE  Pursued(i)'
  <2>1. checkout'[c].purpose.invoice = i
        BY <1>3, ChargedStay
  <2>2. QED BY <1>3, <2>1 DEF Pursued
<1>4. ASSUME NEW c \in Checkouts, NEW via \in Vias, SettleSession(c, via),
             checkout[c].purpose.invoice = i
      PROVE  Pursued(i)'
  <2>1. i # NoInvoice /\ "balance" \in Steps
        BY FeesAssumption DEF Steps
  <2>2. Goto(c, via, "balance")
        BY <1>4, <2>1 DEF SettleSession
  <2>3. settling'[<<c, via>>] = "balance"
        BY <1>1, <2>1, <2>2, CallMoves
  <2>4. c \in charged
        BY <1>4 DEF SettleSession, At, Founded, CallsAreFounded
  <2>5. QED BY <1>3, <1>4, <2>3, <2>4
<1>5. CASE \E c \in SettledOf(i)' : c \notin SettledOf(i)
  <2>1. PICK c \in SettledOf(i)' : c \notin SettledOf(i)
        BY <1>5
  <2>2. c \in Checkouts /\ checkout'[c].status = "settled" /\ checkout'[c].purpose.invoice = i
        BY <2>1 DEF SettledOf, Settled
  <2>3. ASSUME NEW p, checkout'[c] = [status |-> "pending", purpose |-> p] PROVE FALSE
        BY <2>2, <2>3
  <2>4. checkout'[c] # checkout[c]
        BY <2>1, <2>2 DEF SettledOf, Settled
  <2>5. PICK via \in Vias : /\ SettleFound(c, via) \/ SettleSession(c, via)
                            /\ checkout'[c] = [checkout[c] EXCEPT !.status = "settled"]
        BY <1>1, <2>2, <2>3, <2>4, OwnCheckout
  <2>6. checkout[c].purpose.invoice = i
    <3>1. checkout[c] \in [status : {"none", "pending", "settled"}, purpose : Purpose]
          BY <1>1, <2>2 DEF Typed
    <3>2. QED BY <2>2, <2>5, <3>1
  <2>7. CASE SettleSession(c, via)
        BY <1>4, <2>2, <2>6, <2>7
  <2>8. CASE SettleFound(c, via)
    <3>1. At(c, via, "found") /\ c \in charged
          BY <2>2, <2>8 DEF SettleFound, At, Founded, CallsAreFounded
    <3>2. PICK p \in payments : p.of = c
          BY <2>2, <3>1 DEF Founded, CallsAreFounded
    <3>3. p.via \in Vias
      <4>1. c \notin Clerks
            BY <2>2, FeesAssumption
      <4>2. QED BY <3>2, <4>1 DEF Founded, RowsAreFounded
    <3>4. [of |-> c, via |-> p.via] \in payments
      <4>1. p \in Payment
            BY DEF TypeOK
      <4>2. p = [of |-> c, via |-> p.via]
            BY <3>2, <4>1 DEF Payment
      <4>3. QED BY <4>2
    <3>5. c \notin Settled
          BY <2>1, <2>6 DEF SettledOf
    <3>6. settling[<<c, p.via>>] = "settle"
          BY <1>1, <2>2, <3>3, <3>4, <3>5 DEF PaymentsArePursued
    <3>7. p.via # via
          BY <3>1, <3>6 DEF At
    <3>8. settling'[<<c, p.via>>] = "settle"
          BY <1>1, <2>2, <2>8, <3>3, <3>6, <3>7, CallSteps DEF Moved
    <3>9. QED BY <1>3, <2>2, <2>6, <3>1, <3>3, <3>8
  <2>9. QED BY <2>5, <2>7, <2>8
<1>6. CASE ~\E c \in SettledOf(i)' : c \notin SettledOf(i)
  <2>1. \A c \in SettledOf(i) : c \in SettledOf(i)'
    <3>1. TAKE c \in SettledOf(i)
    <3>2. /\ c \in Checkouts /\ c \in charged
          /\ checkout[c].status = "settled" /\ checkout[c].purpose.invoice = i
          BY DEF SettledOf, Settled, Founded, RowsAreFounded
    <3>3. checkout'[c].status = "settled" /\ checkout'[c].purpose.invoice = i
          BY <3>2, ChargedStay
    <3>4. QED BY <3>2, <3>3 DEF SettledOf, Settled
  <2>2. SettledOf(i)' = SettledOf(i)
        BY <1>6, <2>1
  <2>3. Amounts(SettledOf(i)) >= Total
        BY <2>2, SameAmounts
  <2>4. PICK c \in Checkouts, via \in Vias :
               /\ settling[<<c, via>>] \in {"settle", "balance", "paid"}
               /\ checkout[c].purpose.invoice = i
        BY <1>1, <2>3 DEF CoverIsPursued, Pursued
  <2>5. c \in charged
        BY <2>4 DEF Founded, CallsAreFounded, At
  <2>6. CASE settling'[<<c, via>>] = settling[<<c, via>>]
        BY <1>3, <2>4, <2>5, <2>6
  <2>7. CASE SettleSession(c, via)
        BY <1>4, <2>4, <2>7
  <2>8. CASE ReadBalance(c, via)
    <3>1. Goto(c, via, "paid") /\ "paid" \in Steps
          BY <2>3, <2>4, <2>8 DEF ReadBalance, Steps
    <3>2. settling'[<<c, via>>] = "paid"
          BY <1>1, <3>1, CallMoves
    <3>3. QED BY <1>3, <2>4, <2>5, <3>2
  <2>9. CASE MarkPaid(c, via)
    <3>1. invoice' = [invoice EXCEPT ![i] = "paid"]
          BY <2>4, <2>9 DEF MarkPaid
    <3>2. QED BY <1>1, <3>1 DEF Typed
  <2>10. ~\/ Begin(c, via) \/ LookUp(c, via) \/ SettleFound(c, via)
          \/ InsertPayment(c, via) \/ StopReminders(c, via)
          \/ PayInstallment(c, via) \/ CreditAdvance(c, via)
    <3>1. settling[<<c, via>>] \notin
             {"idle", "read", "found", "insert", "remind", "installment", "credit"}
          BY <2>4
    <3>2. QED BY <3>1 DEF Begin, LookUp, SettleFound, InsertPayment, StopReminders,
                  PayInstallment, CreditAdvance, At
  <2>11. QED BY <1>1, <1>2, <2>6, <2>7, <2>8, <2>9, <2>10, OwnCall DEF SettleStep
<1>7. QED BY <1>5, <1>6

\* However the webhook and the verify request of each checkout, and several
\* checkouts of one invoice, interleave: when no call was cut short and none is
\* under way, every settled checkout has paid its installment or its advance
\* credit, and the invoice that its sessions cover is marked as paid, although
\* settleSuccess returns early when it finds the other call's payment.
THEOREM FeesAreSettledFully == Spec => []SettlementsComplete
<1>1. Init => PaymentsArePursued /\ CoverIsPursued
  <2>1. SUFFICES ASSUME Init PROVE PaymentsArePursued /\ CoverIsPursued
        OBVIOUS
  <2>2. PaymentsArePursued
        BY <2>1 DEF Init, PaymentsArePursued
  <2>3. ASSUME NEW i \in Invoices PROVE ~(Amounts(SettledOf(i)) >= Total)
    <3>1. SettledOf(i) = {}
          BY <2>1 DEF Init, SettledOf, Settled
    <3>2. Amounts(SettledOf(i)) = 0
          BY <3>1, SumOfNone DEF Amounts
    <3>3. QED BY <3>2, FeesAssumption
  <2>4. QED BY <2>2, <2>3 DEF CoverIsPursued
<1>2. ASSUME TypeOK, Founded, PaymentsArePursued, CoverIsPursued PROVE SettlementsComplete
  <2>1. EffectsComplete
    <3>1. SUFFICES ASSUME Quiet, NEW c \in Settled
                   PROVE  /\ checkout[c].purpose.installment \notin due
                          /\ checkout[c].purpose.kind = "advance" =>
                                \E p \in credits : p.of = c
          BY DEF EffectsComplete
    <3>2. c \in Checkouts /\ \E p \in payments : p.of = c
          BY <1>2 DEF Settled, Founded, RowsAreFounded
    <3>3. PICK p \in payments : p.of = c
          BY <3>2
    <3>4. c \notin Clerks /\ p \in Payment
          BY <1>2, <3>2, <3>3, FeesAssumption DEF TypeOK
    <3>5. p.via \in Vias
          BY <1>2, <3>3, <3>4 DEF Founded, RowsAreFounded
    <3>6. p = [of |-> c, via |-> p.via]
          BY <3>3, <3>4 DEF Payment
    <3>7. [of |-> c, via |-> p.via] \in payments
          BY <3>6
    <3>8. crashes = 0 /\ settling[<<c, p.via>>] = "idle"
          BY <3>1, <3>2, <3>5 DEF Quiet
    <3>9. /\ checkout[c].purpose.installment \notin due
          /\ checkout[c].purpose.kind = "advance" => [of |-> c, via |-> p.via] \in credits
          BY <1>2, <3>2, <3>5, <3>7, <3>8 DEF PaymentsArePursued, AfterInsert
    <3>10. QED BY <3>9
  <2>2. CoveredIsPaid
    <3>1. SUFFICES ASSUME Quiet, Undisturbed, NEW i \in Invoices,
                          Amounts(SettledOf(i)) >= Total
                   PROVE  invoice[i] = "paid"
          BY DEF CoveredIsPaid, Undisturbed, Quiet
    <3>2. ~Pursued(i)
      <4>1. \A c \in Checkouts, via \in Vias : settling[<<c, via>>] = "idle"
            BY <3>1 DEF Quiet
      <4>2. QED BY <4>1 DEF Pursued
    <3>3. QED BY <1>2, <3>1, <3>2 DEF CoverIsPursued
  <2>3. QED BY <2>1, <2>2 DEF SettlementsComplete
<1>3. /\ TypeOK /\ Founded /\ PaymentsArePursued /\ CoverIsPursued /\ [Next]_vars
      => (TypeOK /\ Founded /\ PaymentsArePursued /\ CoverIsPursued)'
      BY FeesNext, PursuedStep, CoverStep
<1>4. QED BY FeesInit, <1>1, <1>2, <1>3, PTL DEF Spec
=============================================================================
