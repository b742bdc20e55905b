------------------------------- MODULE Accounts -------------------------------
(***************************************************************************)
(* Who gets an account and who loses it: a school and its owner, from the  *)
(* registration on, and the parents and children of a family.              *)
(***************************************************************************)
EXTENDS Onboarding, FamilyAccounts

(***************************************************************************)
(* Schools, owners and families have the accounts the requests gave them.  *)
(* (control-plane.service.ts, users.service.ts, parent-activation.)        *)
(***************************************************************************)
AccountsAgree == OnboardingSound /\ FamiliesAgree
=============================================================================
