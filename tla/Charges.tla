------------------------------- MODULE Charges -------------------------------
(***************************************************************************)
(* What a school is charged for: what it used, by the meters, and what was *)
(* agreed with it, by its subscriptions.                                   *)
(***************************************************************************)
EXTENDS UsageMetering, Deals

(***************************************************************************)
(* A school is charged for what it used and for what was agreed with it.   *)
(* (usage_metering.py, deals.py, billing.py generate_due_invoices.)        *)
(***************************************************************************)
ChargesSound == UsageCounted /\ DealsStand
=============================================================================
