--------------------------------- MODULE Deals ---------------------------------
(***************************************************************************)
(* The subscriptions of one school: deals negotiated with it, approved,    *)
(* edited and approved again, plans it changes to, and subscriptions that  *)
(* staff put in force at once.  A call reads in a transaction and at       *)
(* commit writes the columns that differ from what it read; of the         *)
(* school's subscriptions, the current ones it has read are retired.       *)
(* When an invoice falls due is the subject of SaasBilling.                *)
(***************************************************************************)
EXTENDS Naturals, FiniteSets

CONSTANTS DealMakers,    \* calls that make a deal, which they name
          PlanChanges,   \* calls that make a subscription current at once
          DealApprovals, DealEdits,
          BillingRuns,   \* passes of the billing worker
          TermSheets,    \* what a deal says of prices, cycles and features
          DealCasts      \* which of the calls are made, in one behaviour

\* A call is of one trade.
ASSUME DealAssumption ==
    /\ DealMakers # {} /\ "none" \notin TermSheets
    /\ DealMakers \cap PlanChanges = {} /\ DealApprovals \cap DealEdits = {}
    /\ PlanChanges \cap (DealApprovals \cup DealEdits) = {}

VARIABLES
    subscriptions,  \* the school's rows, by the call that made them
    office,         \* where each call is, what it has read and wants
    agreed,         \* ghost: the terms each deal had when it was approved last,
                    \* or when staff made it current with no approval
    lowered,        \* ghost: current deals whose approval was taken back by hand
    mixed,          \* ghost: deals that two calls were at work on together
    doubleHanded,        \* ghost: two calls that retire others were at work together
    misbilled       \* ghost: deals a pass billed on other terms than agreed

dealVars == <<subscriptions, office, agreed, lowered, mixed, doubleHanded, misbilled>>

Makers == DealMakers \cup PlanChanges
Retirers == DealApprovals \cup PlanChanges
OfficeCalls == Makers \cup DealApprovals \cup DealEdits \cup BillingRuns
Approvals == {"draft", "pending", "approved", "active"}
Statuses == {"trialing", "past_due", "active", "cancelled"}
Blank == [kind |-> "none", current |-> FALSE, approval |-> "none",
          status |-> "none", terms |-> "none"]
IdleCall == [pc |-> "new", deal |-> CHOOSE m \in Makers : TRUE, read |-> Blank,
             want |-> Blank, rest |-> {}]
Current == {s \in Makers : subscriptions[s].current}
Deal(d) == subscriptions[d].kind = "custom"
AtWork(c) == office[c].pc = "commit"
Alters(c, old) == [column \in DOMAIN old |->
    IF office[c].want[column] # office[c].read[column] THEN office[c].want[column]
    ELSE old[column]]

-----------------------------------------------------------------------------
(* Mutations of definitions below; not part of the specification.          *)

MutSendsBack(row, commercial, approval) == FALSE
MutRetired(d) == {}
MutBillable(row) == TRUE

-----------------------------------------------------------------------------
DealInit ==
    /\ subscriptions = [m \in Makers |-> Blank]
    /\ \E cast \in DealCasts : office = [c \in OfficeCalls |->
          [IdleCall EXCEPT !.pc = IF c \in cast THEN "new" ELSE "done"]]
    /\ agreed = [m \in Makers |-> "none"]
    /\ lowered = {} /\ mixed = {} /\ doubleHanded = FALSE /\ misbilled = {}

\* create_deal, and clone_template_to_deal, which may leave a draft.
MakeDeal(m, terms, approval) ==
    /\ m \in DealMakers /\ office[m].pc = "new" /\ approval \in {"draft", "pending"}
    /\ subscriptions' = [subscriptions EXCEPT ![m] =
          [kind |-> "custom", current |-> FALSE, approval |-> approval,
           status |-> "trialing", terms |-> terms]]
    /\ office' = [office EXCEPT ![m].pc = "done"]
    /\ UNCHANGED <<agreed, lowered, mixed, doubleHanded, misbilled>>

\* The transaction of call c, on the row of d, has read and knows what to write.
Prepares(c, d, want, retired) ==
    /\ office[c].pc = "new"
    /\ office' = [office EXCEPT ![c] =
          [pc |-> "commit", deal |-> d, read |-> subscriptions[d], want |-> want, rest |-> retired]]
    /\ mixed' = IF \E e \in OfficeCalls \ {c} : AtWork(e) /\ office[e].deal = d
                THEN mixed \cup {d} ELSE mixed
    /\ doubleHanded' = (doubleHanded \/ (c \in Retirers /\ \E e \in Retirers \ {c} : AtWork(e)))
    /\ UNCHANGED <<subscriptions, agreed, lowered, misbilled>>

\* approve_deal retires the other current subscriptions.
Retired(d) == Current \ {d}
ReadForApproval(c, d) ==
    /\ c \in DealApprovals /\ Deal(d) /\ subscriptions[d].approval \in {"draft", "pending"}
    /\ Prepares(c, d, [subscriptions[d] EXCEPT !.approval = "approved", !.status = "past_due",
                         !.current = TRUE], Retired(d))

\* update_deal; an edit that names terms, changed or not, sends an approved deal
\* back.  The status it sets may be any but active.
SendsBack(row, commercial, approval) == commercial /\ approval \in {"approved", "active"}
ReadForEdit(c, d, commercial, terms, approval, status) ==
    /\ c \in DealEdits /\ Deal(d) /\ (terms # subscriptions[d].terms => commercial)
    /\ LET row == subscriptions[d]
           edited == [row EXCEPT !.terms = terms, !.approval = approval, !.status = status]
       IN
       /\ approval \in {row.approval, "draft", "pending"}
       /\ status \in {row.status} \cup (Statuses \ {"active"})
       /\ Prepares(c, d, IF SendsBack(row, commercial, approval)
                         THEN [edited EXCEPT !.approval = "pending", !.status = "trialing",
                                             !.current = FALSE]
                         ELSE edited, {})

\* change_tenant_subscription and create_subscription retire what is current.
InForce(type, status, terms) ==
    [kind |-> type, current |-> TRUE, approval |-> "active", status |-> status,
     terms |-> terms]
ReadForPlan(c) ==
    /\ c \in PlanChanges
    /\ Prepares(c, c, InForce("catalog", "past_due", "none"), Retired(c))

\* create_subscription, of a plan or of a deal, which nobody has to approve.
ReadForSubscription(c, type, terms) ==
    /\ c \in PlanChanges
    /\ terms \in IF type = "custom" THEN TermSheets ELSE {"none"}
    /\ Prepares(c, c, InForce(type, "active", terms), Retired(c))

\* The billing worker's condition on a row.
Billable(row) == row.approval \in {"active", "approved"}

CommitCall(c) ==
    /\ AtWork(c)
    /\ LET d == office[c].deal  row == Alters(c, subscriptions[d]) IN
       /\ subscriptions' = [s \in Makers |->
             IF s = d THEN row
             ELSE [subscriptions[s] EXCEPT !.current = @ /\ s \notin office[c].rest]]
       /\ agreed' = IF c \in Retirers THEN [agreed EXCEPT ![d] = office[c].want.terms]
                    ELSE agreed
       /\ lowered' = IF c \in DealEdits /\ row.current /\ ~Billable(row)
                     THEN lowered \cup {d} ELSE lowered \ {d}
    /\ office' = [office EXCEPT ![c].pc = "done"]
    /\ UNCHANGED <<mixed, doubleHanded, misbilled>>

\* generate_due_invoices selects the current subscriptions that may be due ...
SelectDue(run) ==
    /\ office[run].pc = "new" /\ run \in BillingRuns
    /\ office' = [office EXCEPT ![run].pc = "bill", ![run].rest =
          {s \in Current : subscriptions[s].status \in {"active", "past_due"}}]
    /\ UNCHANGED <<subscriptions, agreed, lowered, mixed, doubleHanded, misbilled>>

\* ... and bills them one by one, each row locked and read again.
BillNext(run, s) ==
    /\ office[run].pc = "bill" /\ s \in office[run].rest
    /\ office' = [office EXCEPT ![run].rest = @ \ {s}]
    /\ misbilled' = IF Deal(s) /\ Billable(subscriptions[s]) /\ subscriptions[s].terms # agreed[s]
                    THEN misbilled \cup {s} ELSE misbilled
    /\ UNCHANGED <<subscriptions, agreed, lowered, mixed, doubleHanded>>

DealNext == \E c \in OfficeCalls :
    \/ \E terms \in TermSheets :
          \/ \E approval \in Approvals : MakeDeal(c, terms, approval)
          \/ \E d \in Makers, commercial \in BOOLEAN, approval \in Approvals,
                status \in Statuses :
                ReadForEdit(c, d, commercial, terms, approval, status)
    \/ \E d \in Makers : ReadForApproval(c, d)
    \/ ReadForPlan(c)
    \/ \E type \in {"catalog", "custom"}, terms \in TermSheets \cup {"none"} :
          ReadForSubscription(c, type, terms)
    \/ CommitCall(c)
    \/ SelectDue(c)
    \/ \E s \in Makers : BillNext(c, s)

DealSpec == DealInit /\ [][DealNext]_dealVars

SubscriptionRows == [kind : {"none", "custom", "catalog"}, current : BOOLEAN,
    approval : Approvals \cup {"none"},
    status : Statuses \cup {"none"},
    terms : TermSheets \cup {"none"}]
DealTypeOK ==
    /\ subscriptions \in [Makers -> SubscriptionRows]
    /\ \A c \in OfficeCalls :
          /\ office[c].pc \in {"new", "commit", "bill", "done"} /\ office[c].deal \in Makers
          /\ {office[c].read, office[c].want} \subseteq SubscriptionRows
          /\ office[c].rest \subseteq Makers
    /\ agreed \in [Makers -> TermSheets \cup {"none"}]
    /\ lowered \cup mixed \cup misbilled \subseteq Makers /\ doubleHanded \in BOOLEAN

(***************************************************************************)
(* The school has one current subscription, unless two approvals or plan   *)
(* changes overlapped.  A deal is current only because it was approved, or *)
(* because staff created it current, which takes no approval; and it keeps *)
(* an approval unless an edit took that back and let the deal stand, or    *)
(* calls on it overlapped.  The worker bills a deal on the terms it was    *)
(* approved or created with last, unless an edit overlapped the approval.  *)
(* (deals.py approve_deal, update_deal; internal.py                        *)
(* change_tenant_subscription; tenants.py create_subscription; billing.py  *)
(* generate_due_invoices.)                                                 *)
(***************************************************************************)
DealsStand ==
    /\ Cardinality(Current) > 1 => doubleHanded
    /\ \A d \in Current : Deal(d) =>
          /\ agreed[d] # "none"
          /\ Billable(subscriptions[d]) \/ d \in lowered \cup mixed
          /\ subscriptions[d].approval = "active" => d \in PlanChanges
    /\ misbilled \subseteq mixed
=============================================================================
