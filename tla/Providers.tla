------------------------------ MODULE Providers ------------------------------
(***************************************************************************)
(* The vendors that the control plane uses: which one a capability is      *)
(* switched to, and the secret and failover policy that it is used with.   *)
(***************************************************************************)
EXTENDS ProviderSwitch, ProviderUpkeep

(***************************************************************************)
(* Providers, their secrets and their failover are as operators left them. *)
(* (providers.py, dual_control.py _execute.)                               *)
(***************************************************************************)
ProvidersSound == SwitchesAreApproved /\ UpkeepSound
=============================================================================
