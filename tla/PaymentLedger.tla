--------------------------- MODULE PaymentLedger ---------------------------
(***************************************************************************)
(* What the payment handlers of the control plane promise, without their   *)
(* transactions: a payment is credited once, in one step, up to the        *)
(* invoice's amount; a school suspended for its debt is let in again by    *)
(* the payment that leaves nothing owed, and by no other.                  *)
(***************************************************************************)
EXTENDS Integers

CONSTANTS Invoices,    \* the invoices of one subscription
          Total,       \* amount of an invoice
          References,  \* provider references
          NoReference  \* a manual payment without one

VARIABLES credited,    \* what has been paid of each invoice
          recorded,    \* the references used so far
          suspended    \* suspended with status_reason billing_dunning

ledgerVars == <<credited, recorded, suspended>>

Owed == {i \in Invoices : credited[i] < Total}

Init ==
    /\ credited = [i \in Invoices |-> 0]
    /\ recorded = {}
    /\ suspended = FALSE

Credit(i, amount, ref) ==
    /\ ref \notin recorded
    /\ credited[i] + amount <= Total
    /\ credited' = [credited EXCEPT ![i] = @ + amount]
    /\ recorded' = recorded \cup ({ref} \ {NoReference})
    /\ suspended' = (suspended /\ Owed' # {})

Suspend ==
    /\ Owed # {}
    /\ suspended' = TRUE
    /\ UNCHANGED <<credited, recorded>>

Next == \/ \E i \in Invoices, amount \in 1 .. Total,
              ref \in References \cup {NoReference} : Credit(i, amount, ref)
        \/ Suspend

Spec == Init /\ [][Next]_ledgerVars
=============================================================================
