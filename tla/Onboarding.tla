------------------------------ MODULE Onboarding ------------------------------
(***************************************************************************)
(* How one owner's e-mail address becomes a school of the school server:   *)
(* the registration is staged under a code, the code is verified, and the  *)
(* school gets its row, its database and its owner in the background.      *)
(* Every statement commits by itself, and a saved staging row overwrites   *)
(* all its columns with what was read before.                              *)
(***************************************************************************)
EXTENDS Naturals, FiniteSets, Sequences

CONSTANTS Registrars,   \* calls that stage the registration or renew its code
          Openers,      \* calls that verify a code, with their background work
          SchoolNames   \* a name stands for the slug made from it

ASSUME OnboardingAssumption ==
    Registrars \cap Openers = {} /\ IsFiniteSet(Openers)

VARIABLES
    staged,      \* registration_staging, oldest first
    onboarding,  \* where each call is, and the staging row it has read
    schoolRow,   \* tenants_configs, by the call that created the row
    owner,       \* whether the school's own database has the owner
    mapping,     \* user_tenant_mappings: the owner's row for the school
    crossed      \* ghost: the tables that two calls have been at work on together

onboardingVars == <<staged, onboarding, schoolRow, owner, mapping, crossed>>

OnboardingCalls == Registrars \cup Openers
NoStaging == [name |-> "none", code |-> "none", consumed |-> FALSE]
NewCall == [pc |-> "new", at |-> 0, row |-> NoStaging, demotes |-> {}]
NoSchool == [status |-> "none", name |-> "none", code |-> "none", hash |-> FALSE]

CallPcs == {"new", "save", "tenant", "consume", "announce", "provision", "ready", "look",
            "demote", "map", "user", "clear", "done", "cut"}
OnboardsNow(c) == onboarding[c].pc \notin {"new", "done", "cut"}
Stands(v) == schoolRow[v].status # "none"
GoesOn(c, pc) == onboarding' = [onboarding EXCEPT ![c].pc = pc]

\* Calls that have read a staging row and not written it yet.
Staging(c) == onboarding[c].pc \in {"save", "tenant", "consume"}

\* Calls that give a school its owner.
Owning(v) == onboarding[v].pc \in {"demote", "map"}

-----------------------------------------------------------------------------
(* Mutations of definitions below; not part of the specification.          *)

MutSlugTaken(name) == FALSE
MutCompleted == FALSE
MutPrimaries == {}

-----------------------------------------------------------------------------
OnboardingInit ==
    /\ staged = <<>>
    /\ onboarding = [c \in OnboardingCalls |-> NewCall]
    /\ schoolRow = [v \in Openers |-> NoSchool]
    /\ owner = [v \in Openers |-> FALSE]
    /\ mapping = [v \in Openers |-> "none"]
    /\ crossed = {}

Reads(c, pc, at, row) ==
    /\ onboarding[c].pc = "new"
    /\ onboarding' = [onboarding EXCEPT ![c] = [NewCall EXCEPT !.pc = pc, !.at = at, !.row = row]]
    /\ crossed' = IF \E d \in OnboardingCalls : Staging(d) THEN crossed \cup {"staged"} ELSE crossed
    /\ UNCHANGED <<staged, schoolRow, owner, mapping>>

\* createTenantWithOwnerStaging finds the latest row of the address, if any,
\* and none that is consumed.
Completed == \E i \in 1..Len(staged) : staged[i].consumed
Register(c, name) ==
    /\ ~ Completed
    /\ Reads(c, "save", Len(staged), [name |-> name, code |-> c, consumed |-> FALSE])

\* refreshOwnerVerificationToken.
RefreshCode(c) ==
    /\ staged # <<>> /\ ~ staged[Len(staged)].consumed
    /\ Reads(c, "save", Len(staged), [staged[Len(staged)] EXCEPT !.code = c])

SaveStaging(c) ==
    /\ onboarding[c].pc = "save"
    /\ staged' = IF onboarding[c].at = 0 THEN Append(staged, onboarding[c].row)
                 ELSE [staged EXCEPT ![onboarding[c].at] = onboarding[c].row]
    /\ GoesOn(c, "done")
    /\ UNCHANGED <<schoolRow, owner, mapping, crossed>>

\* verifyOwnerEmail, with the code of row i.
VerifyCode(v, i) ==
    /\ i \in 1..Len(staged) /\ ~ staged[i].consumed
    /\ Reads(v, "tenant", i, staged[i])

\* The row of the school; its slug, made from the name, is UNIQUE.
SlugTaken(name) == \E v \in Openers : Stands(v) /\ schoolRow[v].name = name
CreateSchool(v) ==
    /\ onboarding[v].pc = "tenant"
    /\ IF SlugTaken(onboarding[v].row.name) THEN GoesOn(v, "done") /\ UNCHANGED schoolRow
       ELSE /\ schoolRow' = [schoolRow EXCEPT ![v] =
                            [status |-> "pending", name |-> onboarding[v].row.name,
                             code |-> onboarding[v].row.code, hash |-> TRUE]]
            /\ GoesOn(v, "consume")
    /\ UNCHANGED <<staged, owner, mapping, crossed>>

ConsumeStaging(v) ==
    /\ onboarding[v].pc = "consume"
    /\ staged' = [staged EXCEPT ![onboarding[v].at] =
                    [onboarding[v].row EXCEPT !.consumed = TRUE]]
    /\ GoesOn(v, "announce")
    /\ UNCHANGED <<schoolRow, owner, mapping, crossed>>

\* AuthService.verifyEmail registers and activates the school in the control
\* plane; when that fails, the background work is never started.
AnnounceSchool(v) ==
    /\ onboarding[v].pc = "announce"
    /\ \/ GoesOn(v, "provision") \/ GoesOn(v, "cut")
    /\ UNCHANGED <<staged, schoolRow, owner, mapping, crossed>>

\* provisionVerifiedTenant: the database is created and migrated, or it fails.
ProvisionSchool(v) ==
    /\ onboarding[v].pc = "provision"
    /\ \/ GoesOn(v, "ready") /\ UNCHANGED schoolRow
       \/ GoesOn(v, "done") /\ schoolRow' = [schoolRow EXCEPT ![v].status = "failed"]
    /\ UNCHANGED <<staged, owner, mapping, crossed>>

MarkReady(v) ==
    /\ onboarding[v].pc = "ready"
    /\ schoolRow' = [schoolRow EXCEPT ![v].status = "ready"]
    /\ GoesOn(v, "look")
    /\ UNCHANGED <<staged, owner, mapping, crossed>>

\* createPrimaryOwnerUser: the owner's active primary mappings are read ...
Primaries == {w \in Openers : mapping[w] = "active"}
LookUpMappings(v) ==
    /\ onboarding[v].pc = "look"
    /\ onboarding' = [onboarding EXCEPT ![v].pc = "demote", ![v].demotes = Primaries]
    /\ crossed' = IF \E w \in Openers : Owning(w) THEN crossed \cup {"mapping"} ELSE crossed
    /\ UNCHANGED <<staged, schoolRow, owner, mapping>>

\* ... and deactivated one by one.
DemoteMapping(v, w) ==
    /\ onboarding[v].pc = "demote" /\ w \in onboarding[v].demotes
    /\ mapping' = [mapping EXCEPT ![w] = "inactive"]
    /\ onboarding' = [onboarding EXCEPT ![v].demotes = @ \ {w}]
    /\ UNCHANGED <<staged, schoolRow, owner, crossed>>

MapOwner(v) ==
    /\ onboarding[v].pc = "demote" /\ onboarding[v].demotes = {}
    /\ mapping' = [mapping EXCEPT ![v] = "active"]
    /\ GoesOn(v, "user")
    /\ UNCHANGED <<staged, schoolRow, owner, crossed>>

InsertOwner(v) ==
    /\ onboarding[v].pc = "user"
    /\ owner' = [owner EXCEPT ![v] = TRUE]
    /\ GoesOn(v, "clear")
    /\ UNCHANGED <<staged, schoolRow, mapping, crossed>>

\* The staged password hash is cleared.
ClearHash(v) ==
    /\ onboarding[v].pc = "clear"
    /\ schoolRow' = [schoolRow EXCEPT ![v].hash = FALSE]
    /\ GoesOn(v, "done")
    /\ UNCHANGED <<staged, owner, mapping, crossed>>

\* A statement fails, or the server stops: nothing takes the work up again.
CutOnboarding(c) ==
    /\ OnboardsNow(c)
    /\ GoesOn(c, "cut")
    /\ UNCHANGED <<staged, schoolRow, owner, mapping, crossed>>

OnboardingNext ==
    \/ \E c \in Registrars :
          \/ \E name \in SchoolNames : Register(c, name)
          \/ RefreshCode(c) \/ SaveStaging(c)
    \/ \E v \in Openers :
          \/ \E i \in 1..Len(staged) : VerifyCode(v, i)
          \/ CreateSchool(v) \/ ConsumeStaging(v) \/ AnnounceSchool(v) \/ ProvisionSchool(v)
          \/ MarkReady(v) \/ LookUpMappings(v) \/ MapOwner(v) \/ InsertOwner(v) \/ ClearHash(v)
          \/ \E w \in Openers : DemoteMapping(v, w)
    \/ \E c \in OnboardingCalls : CutOnboarding(c)

OnboardingSpec == OnboardingInit /\ [][OnboardingNext]_onboardingVars

OnboardingTypeOK ==
    /\ \A i \in 1..Len(staged) : staged[i].name \in SchoolNames /\ staged[i].code \in Registrars
    /\ \A c \in OnboardingCalls :
          onboarding[c].pc \in CallPcs /\ onboarding[c].at \in 0..Len(staged)
    /\ \A v \in Openers :
          /\ onboarding[v].demotes \subseteq Openers
          /\ schoolRow[v].status \in {"none", "pending", "failed", "ready"}
          /\ mapping[v] \in {"none", "active", "inactive"}
    /\ owner \in [Openers -> BOOLEAN] /\ crossed \subseteq {"staged", "mapping"}

(***************************************************************************)
(* A code makes at most one school, however often it is verified, and      *)
(* however calls overlap; the password staged for the owner is given up    *)
(* only for an owner who is there and mapped; work that nothing cut left   *)
(* the school ready with its owner, or marked as failed; and until calls   *)
(* cross on the same rows, an address gets one school, or one more for     *)
(* each that was cut, and one school that it logs in to.  (control-        *)
(* plane.service.ts createTenantWithOwnerStaging, verifyOwnerEmail,        *)
(* createPrimaryOwnerUser.)                                                *)
(***************************************************************************)
OnboardingSound ==
    /\ \A v, w \in Openers :
          Stands(v) /\ Stands(w) /\ schoolRow[v].code = schoolRow[w].code => v = w
    /\ \A v \in Openers :
          /\ Stands(v) /\ ~ schoolRow[v].hash => owner[v] /\ mapping[v] # "none"
          /\ Stands(v) /\ onboarding[v].pc = "done" =>
                \/ schoolRow[v].status = "failed"
                \/ schoolRow[v].status = "ready" /\ owner[v] /\ ~ schoolRow[v].hash
    /\ "staged" \notin crossed =>
          Cardinality({v \in Openers : Stands(v)}) <= 1 + Cardinality(
             {v \in Openers : Stands(v) /\ onboarding[v].pc = "cut"})
    /\ "mapping" \notin crossed =>
          \A v, w \in Openers : mapping[v] = "active" /\ mapping[w] = "active" => v = w
=============================================================================
