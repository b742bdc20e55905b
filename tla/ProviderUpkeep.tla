---------------------------- MODULE ProviderUpkeep ----------------------------
(***************************************************************************)
(* What operators keep beside a provider's row: the versions of a secret,  *)
(* and the failover policy that trips after so many reports.  Each call    *)
(* reads in a transaction, and at commit writes the columns it changed.    *)
(***************************************************************************)
EXTENDS Naturals, FiniteSets, FiniteSetsExt

CONSTANTS Rotations,    \* calls that store a new value of the secret
          Reports, Resets, PolicyEdits,  \* calls on the failover policy
          Thresholds,
          UpkeepCasts   \* which of the calls are made, in one behaviour

ASSUME UpkeepAssumption ==
    /\ Rotations \cap (Reports \cup Resets \cup PolicyEdits) = {}
    /\ IsFiniteSet(Rotations) /\ Thresholds \subseteq Nat

VARIABLES
    secrets,   \* provider_secrets of one key, by the rotation that made them
    policy,    \* the columns of provider_failover_policies that calls change
    upkeep,    \* where each call is, and what it has read
    reports,   \* ghost: reports committed since the last reset
    ruffled    \* ghost: the last rotation, or some call on the policy, missed a commit

upkeepVars == <<secrets, policy, upkeep, reports, ruffled>>

PolicyCalls == Reports \cup Resets \cup PolicyEdits
UpkeepCalls == Rotations \cup PolicyCalls
NoSecret == [version |-> 0, active |-> FALSE]
Active == {r \in Rotations : secrets[r].active}
Tripped(p) == p.failures >= p.threshold
NotYet == [pc |-> "new", retires |-> {}, version |-> 0, missed |-> FALSE,
           read |-> [failures |-> 0, tripped |-> FALSE, threshold |-> 0]]

\* The call is over, and its peers at work have missed what it committed.
Commits(c, peers) ==
    upkeep' = [d \in UpkeepCalls |->
        IF d = c THEN [NotYet EXCEPT !.pc = "done"]
        ELSE IF d \in peers /\ upkeep[d].pc = "write" THEN [upkeep[d] EXCEPT !.missed = TRUE]
        ELSE upkeep[d]]

-----------------------------------------------------------------------------
(* Mutations of definitions below; not part of the specification.          *)

MutNextVersion == Cardinality(Active) + 1
MutRetires == {r \in Active : secrets[r].version = 1}
MutCleared(read, now) == [now EXCEPT !.tripped = FALSE]

-----------------------------------------------------------------------------
UpkeepInit ==
    /\ secrets = [r \in Rotations |-> NoSecret]
    /\ policy \in [failures : {0}, tripped : {FALSE}, threshold : Thresholds]
    /\ \E cast \in UpkeepCasts : upkeep = [c \in UpkeepCalls |->
          [NotYet EXCEPT !.pc = IF c \in cast THEN "new" ELSE "done"]]
    /\ reports = 0 /\ ruffled = {}

\* set_secret: the active versions of the key are retired by the next one.
Retires == Active
NextVersion == Max({secrets[r].version : r \in Active} \cup {0}) + 1
ReadSecrets(r) ==
    /\ upkeep[r].pc = "new"
    /\ upkeep' = [upkeep EXCEPT ![r] =
          [NotYet EXCEPT !.pc = "write", !.retires = Retires, !.version = NextVersion]]
    /\ UNCHANGED <<secrets, policy, reports, ruffled>>

CommitSecret(r) ==
    /\ upkeep[r].pc = "write"
    /\ secrets' = [s \in Rotations |->
          IF s = r THEN [version |-> upkeep[r].version, active |-> TRUE]
          ELSE [secrets[s] EXCEPT !.active = @ /\ s \notin upkeep[r].retires]]
    /\ ruffled' = IF upkeep[r].missed THEN ruffled \cup {"secrets"} ELSE ruffled \ {"secrets"}
    /\ Commits(r, Rotations)
    /\ UNCHANGED <<policy, reports>>

ReadPolicy(c) ==
    /\ upkeep[c].pc = "new"
    /\ upkeep' = [upkeep EXCEPT ![c] = [NotYet EXCEPT !.pc = "write", !.read = policy]]
    /\ UNCHANGED <<secrets, policy, reports, ruffled>>

CommitPolicy(c) ==
    /\ upkeep[c].pc = "write"
    /\ ruffled' = IF upkeep[c].missed THEN ruffled \cup {"policy"} ELSE ruffled
    /\ Commits(c, PolicyCalls)
    /\ UNCHANGED secrets

\* trip_failover counts on from what it read, and writes a trip that is new to it.
Report(c) ==
    /\ CommitPolicy(c)
    /\ LET read == [upkeep[c].read EXCEPT !.failures = @ + 1] IN
       policy' = [policy EXCEPT !.failures = read.failures,
                                !.tripped = @ \/ (Tripped(read) /\ ~ read.tripped)]
    /\ reports' = reports + 1

\* reset_failover; a column that is as it read it is not written.
Cleared(read, now) ==
    [now EXCEPT !.failures = IF read.failures = 0 THEN @ ELSE 0,
                !.tripped = @ /\ ~ read.tripped]
Reset(c) ==
    /\ CommitPolicy(c)
    /\ policy' = Cleared(upkeep[c].read, policy)
    /\ reports' = 0

\* set_failover leaves the count and the trip as they are.
EditPolicy(c, threshold) ==
    /\ CommitPolicy(c)
    /\ policy' = [policy EXCEPT !.threshold =
                     IF threshold = upkeep[c].read.threshold THEN @ ELSE threshold]
    /\ UNCHANGED reports

UpkeepNext ==
    \/ \E r \in Rotations : ReadSecrets(r) \/ CommitSecret(r)
    \/ \E c \in PolicyCalls : ReadPolicy(c)
    \/ \E c \in Reports : Report(c)
    \/ \E c \in Resets : Reset(c)
    \/ \E c \in PolicyEdits, threshold \in Thresholds : EditPolicy(c, threshold)

UpkeepSpec == UpkeepInit /\ [][UpkeepNext]_upkeepVars

UpkeepTypeOK ==
    /\ secrets \in [Rotations -> [version : Nat, active : BOOLEAN]]
    /\ policy \in [failures : Nat, tripped : BOOLEAN, threshold : Thresholds]
    /\ \A c \in UpkeepCalls :
          /\ upkeep[c].pc \in {"new", "write", "done"} /\ upkeep[c].retires \subseteq Rotations
          /\ upkeep[c].version \in Nat /\ upkeep[c].missed \in BOOLEAN
    /\ reports \in Nat /\ ruffled \subseteq {"secrets", "policy"}

(***************************************************************************)
(* A secret that was stored always has an active version, and one only,    *)
(* the highest, once a rotation ran alone, whatever overlapped before it.  *)
(* While calls on it do not overlap, the policy has counted every report   *)
(* since the last reset, and has tripped on no fewer than some threshold.  *)
(* (providers.py set_secret, trip_failover, reset_failover, set_failover.) *)
(***************************************************************************)
UpkeepSound ==
    /\ (\E r \in Rotations : secrets[r].version > 0) =>
          /\ Active # {}
          /\ "secrets" \notin ruffled => \E r \in Rotations : Active = {r}
                /\ \A s \in Rotations \ {r} : secrets[s].version < secrets[r].version
    /\ "policy" \notin ruffled =>
          /\ policy.failures = reports
          /\ policy.tripped => \E threshold \in Thresholds : reports >= threshold
=============================================================================
