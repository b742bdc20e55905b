---------------------------- MODULE FamilyAccounts ----------------------------
(***************************************************************************)
(* The accounts of one family: children archived one by one, the parent    *)
(* archived with the last of them, accounts made active again, and the     *)
(* codes with which the parent sets a password.  Every statement commits   *)
(* by itself; a request that stops in between never goes on.               *)
(***************************************************************************)
EXTENDS Naturals, FiniteSets

CONSTANTS Kids, Guardian,
          Archivers,    \* requests that archive an account
          Issuers,      \* requests that issue a code, which they name
          Activators,   \* requests that activate the parent with a code
          FamilyCasts   \* which of the requests are made, in one behaviour

ASSUME FamilyAssumption ==
    /\ Kids # {} /\ Guardian \notin Kids /\ Issuers \cap Activators = {}
    /\ Issuers # {} /\ IsFiniteSet(Activators)

VARIABLES
    active,       \* users.is_active
    login,        \* user_tenant_mappings.isActive: whether the account can log in
    archiver,     \* where each archive is, and whom it archives
    activations,  \* parent_activation_codes, with the columns that are set
    clerk,        \* where each issue and each activation is
    revived,      \* ghost: accounts made active again
    passwords,    \* ghost: how often a password was set with a code
    tangled       \* ghost: codes and issues of requests that ran together

familyVars == <<active, login, archiver, activations, clerk, revived, passwords, tangled>>

People == Kids \cup {Guardian}
Clerks == Issuers \cup Activators
Closed(p) == ~ active[p] /\ ~ login[p]
AtArchive(c, pc) == archiver[c].pc = pc
NextArchive(c, pc) == archiver' = [archiver EXCEPT ![c].pc = pc]
Archiving == {c \in Archivers : archiver[c].pc \notin {"new", "done"}}
OpenCode(i) == activations[i] = {"issued"}
With(i) == {a \in Activators : clerk[a].code = i /\ clerk[a].pc \in {"password", "use"}}
accountVars == <<active, login, archiver, revived>>
codeVars == <<activations, clerk, passwords, tangled>>

-----------------------------------------------------------------------------
(* Mutations of definitions below; not part of the specification.          *)

MutHasChildren == TRUE
MutHasNoChildren == FALSE
MutRecovered(i) == activations[i]
MutUseCode(a) ==
    /\ clerk[a].pc = "use"
    /\ clerk' = [clerk EXCEPT ![a].pc = "done"]
    /\ UNCHANGED <<accountVars, activations, passwords, tangled>>

-----------------------------------------------------------------------------
FamilyInit ==
    /\ active = [p \in People |-> TRUE] /\ login = active
    /\ activations = [i \in Issuers |-> {}]
    /\ \E cast \in FamilyCasts :
          /\ archiver = [c \in Archivers |->
                [pc |-> IF c \in cast THEN "new" ELSE "done", who |-> CHOOSE k \in Kids : TRUE]]
          /\ clerk = [c \in Clerks |->
                [pc |-> IF c \in cast THEN "new" ELSE "done", code |-> CHOOSE i \in Issuers : TRUE]]
    /\ revived = {} /\ passwords = [i \in Issuers |-> 0] /\ tangled = {}

\* deleteTenantUser: the account goes first ...
ArchiveUser(c, p) ==
    /\ AtArchive(c, "new")
    /\ active' = [active EXCEPT ![p] = FALSE]
    /\ archiver' = [archiver EXCEPT ![c] =
          [pc |-> IF p \in Kids THEN "children" ELSE "own", who |-> p]]
    /\ UNCHANGED <<login, revived, codeVars>>

\* ... then the parent of a student with no other active child ...
HasChildren == \E k \in Kids : active[k]
LookForChildren(c) ==
    /\ AtArchive(c, "children")
    /\ NextArchive(c, IF HasChildren THEN "own" ELSE "parent")
    /\ UNCHANGED <<active, login, revived, codeVars>>

ArchiveParent(c) ==
    /\ AtArchive(c, "parent")
    /\ active' = [active EXCEPT ![Guardian] = FALSE]
    /\ NextArchive(c, "parentLogin")
    /\ UNCHANGED <<login, revived, codeVars>>

CloseParentLogin(c) ==
    /\ AtArchive(c, "parentLogin")
    /\ login' = [login EXCEPT ![Guardian] = FALSE]
    /\ NextArchive(c, "own")
    /\ UNCHANGED <<active, revived, codeVars>>

\* ... and at last the account's own way in.
CloseLogin(c) ==
    /\ AtArchive(c, "own")
    /\ login' = [login EXCEPT ![archiver[c].who] = FALSE]
    /\ NextArchive(c, "done")
    /\ UNCHANGED <<active, revived, codeVars>>

\* updateTenantUser with isActive; the way in stays closed.
Reactivate(p) ==
    /\ ~ active[p]
    /\ active' = [active EXCEPT ![p] = TRUE]
    /\ revived' = revived \cup {p}
    /\ UNCHANGED <<login, archiver, codeVars>>

\* issue: codes that are still open are recovered before the new one exists.
Recovered(i) == IF OpenCode(i) THEN activations[i] \cup {"recovered"} ELSE activations[i]
RecoverCodes(c) ==
    /\ clerk[c].pc = "new"
    /\ activations' = [i \in Issuers |-> Recovered(i)]
    /\ clerk' = [clerk EXCEPT ![c].pc = "insert"]
    /\ tangled' = tangled
          \cup {i \in Issuers : OpenCode(i) /\ With(i) # {}}
          \cup UNION {{c, i} : i \in {j \in Issuers : clerk[j].pc = "insert"}}
    /\ UNCHANGED <<accountVars, passwords>>

InsertCode(c) ==
    /\ clerk[c].pc = "insert"
    /\ activations' = [activations EXCEPT ![c] = {"issued"}]
    /\ clerk' = [clerk EXCEPT ![c].pc = "done"]
    /\ UNCHANGED <<accountVars, passwords, tangled>>

\* activate, with a code that is open and not expired.
FindCode(a, i) ==
    /\ clerk[a].pc = "new" /\ OpenCode(i)
    /\ clerk' = [clerk EXCEPT ![a] = [pc |-> "password", code |-> i]]
    /\ tangled' = tangled \cup {j \in {i} : With(i) # {}}
    /\ UNCHANGED <<accountVars, activations, passwords>>

SetPassword(a) ==
    /\ clerk[a].pc = "password"
    /\ active' = [active EXCEPT ![Guardian] = TRUE]
    /\ revived' = revived \cup {Guardian}
    /\ passwords' = [passwords EXCEPT ![clerk[a].code] = @ + 1]
    /\ clerk' = [clerk EXCEPT ![a].pc = "use"]
    /\ UNCHANGED <<login, archiver, activations, tangled>>

UseCode(a) ==
    /\ clerk[a].pc = "use"
    /\ activations' = [activations EXCEPT ![clerk[a].code] = @ \cup {"used"}]
    /\ clerk' = [clerk EXCEPT ![a].pc = "done"]
    /\ UNCHANGED <<accountVars, passwords, tangled>>

FamilyNext ==
    \/ \E c \in Archivers :
          \/ \E p \in People : ArchiveUser(c, p)
          \/ LookForChildren(c) \/ ArchiveParent(c) \/ CloseParentLogin(c) \/ CloseLogin(c)
    \/ \E p \in People : Reactivate(p)
    \/ \E c \in Issuers : RecoverCodes(c) \/ InsertCode(c)
    \/ \E a \in Activators :
          (\E i \in Issuers : FindCode(a, i)) \/ SetPassword(a) \/ UseCode(a)

FamilySpec == FamilyInit /\ [][FamilyNext]_familyVars

FamilyTypeOK ==
    /\ {active, login} \subseteq [People -> BOOLEAN]
    /\ archiver \in [Archivers ->
          [pc : {"new", "children", "parent", "parentLogin", "own", "done"}, who : People]]
    /\ activations \in [Issuers -> SUBSET {"issued", "recovered", "used"}]
    /\ clerk \in [Clerks -> [pc : {"new", "insert", "password", "use", "done"}, code : Issuers]]
    /\ revived \subseteq People /\ tangled \subseteq Issuers
    /\ passwords \in [Issuers -> 0..Cardinality(Activators)]

(***************************************************************************)
(* The parent of a family all of whose children were archived is archived  *)
(* and locked out too, even when the last two archives overlap; and no     *)
(* child stays active without its parent.  An account made active again is *)
(* the exception to both.  A code sets one password, and a parent has one  *)
(* open code, which is not used once it is recovered, unless the requests  *)
(* overlapped.  (users.service.ts deleteTenantUser, updateTenantUser;      *)
(* parent-activation.service.ts issue, activate.)                          *)
(***************************************************************************)
FamiliesAgree ==
    /\ (\A k \in Kids : ~ active[k]) /\ Archiving = {} /\ revived = {}
          => \A p \in People : Closed(p)
    /\ (\A c \in Archivers : archiver[c].who # Guardian) /\ ~ active[Guardian]
          => {k \in Kids : active[k]} \subseteq revived
    /\ \A p \in People : login[p] /\ ~ active[p] =>
          \E c \in Archiving : p \in {archiver[c].who, Guardian}
    /\ \A i \in Issuers \ tangled :
          /\ passwords[i] <= 1 /\ ~ {"recovered", "used"} \subseteq activations[i]
          /\ \A j \in Issuers \ tangled : OpenCode(i) /\ OpenCode(j) => i = j
=============================================================================
