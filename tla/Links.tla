-------------------------------- MODULE Links --------------------------------
(***************************************************************************)
(* The links of one teacher to classes and subjects, of one parent to      *)
(* children and of one class to its students.  A request brings the whole  *)
(* list; the handler compares it with the links it has read and inserts    *)
(* and deletes one by one, or, for a teacher's whole scope, replaces the   *)
(* links in a transaction.                                                 *)
(***************************************************************************)
EXTENDS FiniteSets

CONSTANTS TeacherClasses, TeacherSubjects,   \* the teacher may be linked to
          Children,            \* the parent may be linked to
          Pupils,              \* the class may list
          Linkers              \* requests

VARIABLES
    linked,    \* the rows of the link tables
    linker,    \* where each request is
    firstLinks \* ghost: the links there were at first

linksVars == <<linked, linker, firstLinks>>

Scope == TeacherClasses \cup TeacherSubjects
Items == Scope \cup Children \cup Pupils

NewLinker == [pc |-> "new", list |-> {}, want |-> {}, have |-> {}]

\* Mutation of Extra, not part of the specification: the wanted links are
\* deleted, too.
MutExtra(r) == linker[r].have

\* What a request is still to insert, and then to delete.
Missing(r) == linker[r].want \ linker[r].have
Extra(r) == linker[r].have \ linker[r].want

-----------------------------------------------------------------------------
LinksInit ==
    /\ linked \in SUBSET Items /\ firstLinks = linked
    /\ linker = [r \in Linkers |-> NewLinker]

\* The links are read; what the request lists has been found to exist.
ReadLinks(r, list, want, pc) ==
    /\ linker[r].pc = "new" /\ want \subseteq list
    /\ linker' = [linker EXCEPT ![r] =
          [pc |-> pc, list |-> list, want |-> want, have |-> linked \cap list]]
    /\ UNCHANGED <<linked, firstLinks>>

LinkTeacherToClasses(r, want) == ReadLinks(r, TeacherClasses, want, "insert")
LinkTeacherToSubjects(r, want) == ReadLinks(r, TeacherSubjects, want, "insert")
LinkParentToStudents(r, want) == ReadLinks(r, Children, want, "insert")
EnrollStudentsInClass(r, want) == ReadLinks(r, Pupils, want, "insert")

\* The rows that the DELETEs of linkTeacherScope find.
BeginScope(r, want) == ReadLinks(r, Scope, want, "replace")

\* A link that has come up meanwhile violates its UNIQUE constraint, and the
\* request ends there.
InsertLink(r, x) ==
    /\ linker[r].pc = "insert" /\ x \in Missing(r)
    /\ linked' = linked \cup {x}
    /\ linker' = IF x \in linked THEN [linker EXCEPT ![r].pc = "failed"]
                 ELSE [linker EXCEPT ![r].have = @ \cup {x}]
    /\ UNCHANGED firstLinks

EndInserts(r) ==
    /\ linker[r].pc = "insert" /\ Missing(r) = {}
    /\ linker' = [linker EXCEPT ![r].pc = "delete"]
    /\ UNCHANGED <<linked, firstLinks>>

DeleteLink(r, x) ==
    /\ linker[r].pc = "delete" /\ x \in Extra(r)
    /\ linked' = linked \ {x}
    /\ linker' = [linker EXCEPT ![r].have = @ \ {x}]
    /\ UNCHANGED firstLinks

EndLinks(r) ==
    /\ linker[r].pc = "delete" /\ Extra(r) = {}
    /\ linker' = [linker EXCEPT ![r].pc = "done"]
    /\ UNCHANGED <<linked, firstLinks>>

\* The transaction commits: the rows it found are gone and the wanted ones
\* are there.  It fails on a wanted link that has come up meanwhile.
CommitScope(r) ==
    LET others == linked \ linker[r].have IN
    /\ linker[r].pc = "replace"
    /\ IF others \cap linker[r].want # {}
         THEN UNCHANGED linked /\ linker' = [linker EXCEPT ![r].pc = "failed"]
         ELSE linked' = others \cup linker[r].want
              /\ linker' = [linker EXCEPT ![r].pc = "done"]
    /\ UNCHANGED firstLinks

\* A statement fails, or the server stops.
FailLinks(r) ==
    /\ linker[r].pc \in {"insert", "delete", "replace"}
    /\ linker' = [linker EXCEPT ![r].pc = "failed"]
    /\ UNCHANGED <<linked, firstLinks>>

-----------------------------------------------------------------------------
LinksNext ==
    \E r \in Linkers :
       \/ EndInserts(r) \/ EndLinks(r) \/ CommitScope(r) \/ FailLinks(r)
       \/ \E x \in Items : InsertLink(r, x) \/ DeleteLink(r, x)
       \/ \E want \in SUBSET Items :
             \/ LinkTeacherToClasses(r, want) \/ LinkTeacherToSubjects(r, want)
             \/ LinkParentToStudents(r, want) \/ EnrollStudentsInClass(r, want)
             \/ BeginScope(r, want)

LinksSpec == LinksInit /\ [][LinksNext]_linksVars

LinksTypeOK ==
    /\ linked \subseteq Items /\ firstLinks \subseteq Items
    /\ linker \in [Linkers ->
          [pc : {"new", "insert", "delete", "replace", "done", "failed"},
           list : SUBSET Items, want : SUBSET Items, have : SUBSET Items]]

-----------------------------------------------------------------------------
\* The requests so far that list, or leave out, x.
About(x) == {r \in Linkers : linker[r].pc # "new" /\ x \in linker[r].list}
Through(x) == {r \in About(x) : linker[r].pc = "done"}

(***************************************************************************)
(* What all requests agree on is never in doubt, however they overlap and  *)
(* whichever fail: a link that each of them lists stays if it was there    *)
(* and is there as soon as one of them is through; a link that none of     *)
(* them lists is not created, and is gone as soon as one is through.       *)
(* (academic.service.ts, the link handlers: missing links are inserted     *)
(* before extra ones are deleted, each by itself.)                         *)
(***************************************************************************)
LinksAgree ==
    \A x \in Items :
       /\ (\A r \in About(x) : x \in linker[r].want)
             => (x \in firstLinks \/ Through(x) # {} => x \in linked)
       /\ (\A r \in About(x) : x \notin linker[r].want)
             => (x \notin firstLinks \/ Through(x) # {} => x \notin linked)
=============================================================================
