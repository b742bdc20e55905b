------------------------------ MODULE Promotions ------------------------------
(***************************************************************************)
(* The classes one student is enrolled in.  promoteStudent deletes every   *)
(* enrolment and makes sure of the new one by statements that commit one   *)
(* by one; a result entered for the student makes sure of one, too; and    *)
(* staff send the list of a class, which names the student or does not.    *)
(***************************************************************************)
EXTENDS FiniteSets

CONSTANTS Classes,     \* the student may be enrolled in
          NoClass,
          Enrolments   \* requests: promotions, results entered, lists of classes

ASSUME PromotionsAssumption == NoClass \notin Classes

VARIABLES
    enrolled,   \* student_class_enrollments of the student
    enrolling,  \* where each request is
    alone,      \* ghost: the request none has overlapped since it began ...
    lastTo,     \* ghost: ... and the class it promoted to, when it is through
    stranded,   \* ghost: a promotion stopped between its DELETE and its INSERT
    unlisted    \* ghost: the list of a class took an enrolment, and none has come since

promotionVars == <<enrolled, enrolling, alone, lastTo, stranded, unlisted>>

NewEnrolment == [pc |-> "new", to |-> NoClass, promotes |-> FALSE]
EnrolmentPcs == {"new", "record", "delete", "look", "insert", "list", "remove", "done"}
Enrolling(r) == enrolling[r].pc \notin {"new", "done"}
Landing(r) == enrolling[r].promotes /\ enrolling[r].pc \in {"look", "insert"}
Proceeds(r, pc) == enrolling' = [enrolling EXCEPT ![r].pc = pc]

-----------------------------------------------------------------------------
(* Mutations of definitions below; not part of the specification.          *)

\* The enrolments the student has are not deleted.
MutAfterRecord == "look"

-----------------------------------------------------------------------------
PromotionInit ==
    /\ \E class \in Classes : enrolled = {class}
    /\ enrolling = [r \in Enrolments |-> NewEnrolment]
    /\ alone = {} /\ lastTo = NoClass /\ stranded = FALSE /\ unlisted = FALSE

BeginEnrolment(r, pc, to, promotes) ==
    /\ enrolling[r].pc = "new"
    /\ enrolling' = [enrolling EXCEPT ![r] = [pc |-> pc, to |-> to, promotes |-> promotes]]
    /\ alone' = IF \E q \in Enrolments : Enrolling(q) THEN {} ELSE {r}
    /\ lastTo' = NoClass
    /\ UNCHANGED <<enrolled, stranded, unlisted>>

\* promoteStudent: the target is an active class.
BeginPromotion(r, to) == BeginEnrolment(r, "record", to, TRUE)

\* upsertResult for the student in a class, or enrollStudentsInClass with a
\* list of the class that names the student.
BeginResult(r, to) == BeginEnrolment(r, "look", to, FALSE)

\* enrollStudentsInClass with a list that does not.
BeginUnlisting(r, class) == BeginEnrolment(r, "list", class, FALSE)

\* The promotion and its entry of the student's history are recorded.
AfterRecord == "delete"
RecordPromotion(r) ==
    /\ enrolling[r].pc = "record"
    /\ Proceeds(r, AfterRecord)
    /\ UNCHANGED <<enrolled, alone, lastTo, stranded, unlisted>>

DeleteEnrolments(r) ==
    /\ enrolling[r].pc = "delete"
    /\ enrolled' = {}
    /\ Proceeds(r, "look")
    /\ UNCHANGED <<alone, lastTo, stranded, unlisted>>

Ended(r) ==
    lastTo' = IF enrolling[r].promotes /\ r \in alone THEN enrolling[r].to ELSE NoClass

\* ensureStudentClassEnrollment, or the enrolments that enrollStudentsInClass
\* reads.
LookUpEnrolment(r) ==
    /\ enrolling[r].pc = "look"
    /\ IF enrolling[r].to \in enrolled THEN Proceeds(r, "done") /\ Ended(r)
       ELSE Proceeds(r, "insert") /\ UNCHANGED lastTo
    /\ UNCHANGED <<enrolled, alone, stranded, unlisted>>

\* An enrolment that has come up meanwhile violates the UNIQUE constraint; the
\* request fails and the row is there.
InsertEnrolment(r) ==
    /\ enrolling[r].pc = "insert"
    /\ enrolled' = enrolled \cup {enrolling[r].to}
    /\ Proceeds(r, "done") /\ Ended(r)
    /\ unlisted' = FALSE
    /\ UNCHANGED <<alone, stranded>>

\* Of the students that enrollStudentsInClass finds in the class, those the
\* list leaves out are deleted, after it has inserted the others.
ReadList(r) ==
    /\ enrolling[r].pc = "list"
    /\ Proceeds(r, IF enrolling[r].to \in enrolled THEN "remove" ELSE "done")
    /\ UNCHANGED <<enrolled, alone, lastTo, stranded, unlisted>>

RemoveUnlisted(r) ==
    /\ enrolling[r].pc = "remove"
    /\ enrolled' = enrolled \ {enrolling[r].to}
    /\ unlisted' = (unlisted \/ enrolling[r].to \in enrolled)
    /\ Proceeds(r, "done")
    /\ UNCHANGED <<alone, lastTo, stranded>>

\* A statement fails, or the server stops.
CutEnrolment(r) ==
    /\ Enrolling(r)
    /\ Proceeds(r, "done")
    /\ stranded' = (stranded \/ Landing(r))
    /\ UNCHANGED <<enrolled, alone, lastTo, unlisted>>

PromotionNext ==
    \E r \in Enrolments :
       \/ RecordPromotion(r) \/ DeleteEnrolments(r) \/ LookUpEnrolment(r)
       \/ InsertEnrolment(r) \/ ReadList(r) \/ RemoveUnlisted(r) \/ CutEnrolment(r)
       \/ \E to \in Classes :
             BeginPromotion(r, to) \/ BeginResult(r, to) \/ BeginUnlisting(r, to)

PromotionSpec == PromotionInit /\ [][PromotionNext]_promotionVars

PromotionTypeOK ==
    /\ enrolled \subseteq Classes
    /\ enrolling \in [Enrolments -> [pc : EnrolmentPcs, to : Classes \cup {NoClass},
                                     promotes : BOOLEAN]]
    /\ alone \subseteq Enrolments /\ lastTo \in Classes \cup {NoClass}
    /\ stranded \in BOOLEAN /\ unlisted \in BOOLEAN

(***************************************************************************)
(* A student is always enrolled somewhere, or a promotion is about to      *)
(* enrol the student, however promotions, results and lists overlap,       *)
(* unless one of them stopped just there or a list of a class took an      *)
(* enrolment after the last one was made; and a promotion that none        *)
(* overlapped leaves the student in its class and in no other.             *)
(* (academic.service.ts promoteStudent, ensureStudentClassEnrollment and   *)
(* enrollStudentsInClass.)                                                 *)
(***************************************************************************)
StudentsAreEnrolled ==
    /\ stranded \/ unlisted \/ enrolled # {} \/ \E r \in Enrolments : Landing(r)
    /\ lastTo # NoClass => enrolled = {lastTo}
=============================================================================
