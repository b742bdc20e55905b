--------------------------------- MODULE Cbt ---------------------------------
(***************************************************************************)
(* A computer-based test: the author stores its questions one by one and   *)
(* may publish it meanwhile; a student's attempt is started, answered and  *)
(* scored by requests that read and write in separate statements.          *)
(***************************************************************************)
EXTENDS Integers, FiniteSets

CONSTANTS Questions,   \* of one exam, each worth one point
          Attempts,    \* rows the student's start requests may insert
          NoAttempt,
          Starts,      \* start requests of the student
          Submits      \* submit requests, each with one set of answers

ASSUME CbtAssumption ==
    IsFiniteSet(Questions) /\ NoAttempt \notin Attempts

VARIABLES
    exam,        \* cbt_exams.status
    questions,   \* cbt_questions rows
    authoring,   \* is createExam still storing questions?
    attempt,     \* cbt_attempts
    starting,    \* start requests that found no attempt in progress
    started,     \* start requests that are through
    submitting,  \* where each submit request is
    late,        \* attempts whose time has run out
    contested,   \* ghost: attempts that two submit requests worked on at once
    hasty        \* ghost: was the exam published before its author was through?

cbtVars == <<exam, questions, authoring, attempt, starting, started, submitting,
             late, contested, hasty>>
ghosts == <<contested, hasty>>

NoAttemptRow == [status |-> "none", answers |-> {}, score |-> 0, max |-> 0]
NewSubmit == [pc |-> "new", attempt |-> NoAttempt, answers |-> {}, paper |-> {}]
SubmitPcs == {"new", "answer", "read", "mark", "score", "done"}
Open(a) == attempt[a].status = "in_progress"
Underway(u) == submitting[u].pc \in {"answer", "read", "mark", "score"}

-----------------------------------------------------------------------------
(* Mutations of definitions below; not part of the specification.          *)

\* A submitted attempt is submitted again.
MutMaySubmit(a) == attempt[a].status # "none"
\* Every question counts as answered rightly.
MutMarks(u) == Cardinality(submitting[u].paper)

-----------------------------------------------------------------------------
CbtInit ==
    /\ exam = "none" /\ questions = {} /\ authoring = TRUE
    /\ attempt = [a \in Attempts |-> NoAttemptRow]
    /\ starting = {} /\ started = {}
    /\ submitting = [u \in Submits |-> NewSubmit]
    /\ late = {} /\ contested = {} /\ hasty = FALSE

-----------------------------------------------------------------------------
(* createExam and publishExam.                                             *)

CreateExam ==
    /\ exam = "none"
    /\ exam' = "draft"
    /\ UNCHANGED <<questions, authoring, attempt, starting, started, submitting, late, ghosts>>

StoreQuestion(q) ==
    /\ authoring /\ exam # "none" /\ q \notin questions
    /\ questions' = questions \cup {q}
    /\ UNCHANGED <<exam, authoring, attempt, starting, started, submitting, late, ghosts>>

\* All are stored, or a statement fails and the others never are.
EndCreateExam ==
    /\ authoring /\ exam # "none"
    /\ authoring' = FALSE
    /\ UNCHANGED <<exam, questions, attempt, starting, started, submitting, late, ghosts>>

PublishExam ==
    /\ exam # "none"
    /\ exam' = "published"
    /\ hasty' = (hasty \/ authoring)
    /\ UNCHANGED <<questions, authoring, attempt, starting, started, submitting, late, contested>>

-----------------------------------------------------------------------------
(* startAttempt.                                                           *)

\* An attempt in progress is returned; without one a row is to be inserted.
BeginStart(b) ==
    /\ b \notin starting \cup started /\ exam = "published"
    /\ IF \E a \in Attempts : Open(a)
         THEN started' = started \cup {b} /\ UNCHANGED starting
         ELSE starting' = starting \cup {b} /\ UNCHANGED started
    /\ UNCHANGED <<exam, questions, authoring, attempt, submitting, late, ghosts>>

InsertAttempt(b, a) ==
    /\ b \in starting /\ attempt[a].status = "none"
    /\ attempt' = [attempt EXCEPT ![a].status = "in_progress"]
    /\ starting' = starting \ {b} /\ started' = started \cup {b}
    /\ UNCHANGED <<exam, questions, authoring, submitting, late, ghosts>>

RunOutOfTime(a) ==
    /\ Open(a) /\ a \notin late
    /\ late' = late \cup {a}
    /\ UNCHANGED <<exam, questions, authoring, attempt, starting, started, submitting, ghosts>>

-----------------------------------------------------------------------------
(* submitAnswers and scoreAttempt.  Answers are the questions answered     *)
(* rightly; a student sees the stored questions only.                      *)

MaySubmit(a) == Open(a)

BeginSubmit(u, a, answers) ==
    /\ submitting[u].pc = "new" /\ MaySubmit(a) /\ a \notin late
    /\ submitting' = [submitting EXCEPT ![u] =
          [NewSubmit EXCEPT !.pc = "answer", !.attempt = a, !.answers = answers]]
    /\ contested' = IF \E v \in Submits : submitting[v].attempt = a /\ Underway(v)
                      THEN contested \cup {a} ELSE contested
    /\ UNCHANGED <<exam, questions, authoring, attempt, starting, started, late, hasty>>

WriteAnswers(u) ==
    /\ submitting[u].pc = "answer"
    /\ attempt' = [attempt EXCEPT ![submitting[u].attempt].answers = submitting[u].answers]
    /\ submitting' = [submitting EXCEPT ![u].pc = "read"]
    /\ UNCHANGED <<exam, questions, authoring, starting, started, late, ghosts>>

\* scoreAttempt reads the answers back, whoever wrote them last, ...
ReadAnswers(u) ==
    /\ submitting[u].pc = "read"
    /\ submitting' = [submitting EXCEPT ![u].pc = "mark",
                         ![u].answers = attempt[submitting[u].attempt].answers]
    /\ UNCHANGED <<exam, questions, authoring, attempt, starting, started, late, ghosts>>

\* ... then the questions, ...
ReadQuestions(u) ==
    /\ submitting[u].pc = "mark"
    /\ submitting' = [submitting EXCEPT ![u].pc = "score", ![u].paper = questions]
    /\ UNCHANGED <<exam, questions, authoring, attempt, starting, started, late, ghosts>>

Marks(u) == Cardinality(submitting[u].answers \cap submitting[u].paper)

\* ... and stores the score.
StoreScore(u) ==
    /\ submitting[u].pc = "score"
    /\ attempt' = [attempt EXCEPT ![submitting[u].attempt] =
          [@ EXCEPT !.status = "submitted", !.score = Marks(u),
                    !.max = Cardinality(submitting[u].paper)]]
    /\ submitting' = [submitting EXCEPT ![u].pc = "done"]
    /\ UNCHANGED <<exam, questions, authoring, starting, started, late, ghosts>>

\* A statement fails between two of its writes.
FailSubmit(u) ==
    /\ Underway(u)
    /\ submitting' = [submitting EXCEPT ![u].pc = "done"]
    /\ UNCHANGED <<exam, questions, authoring, attempt, starting, started, late, ghosts>>

-----------------------------------------------------------------------------
CbtNext ==
    \/ CreateExam \/ EndCreateExam \/ PublishExam
    \/ \E q \in Questions : StoreQuestion(q)
    \/ \E b \in Starts : BeginStart(b) \/ \E a \in Attempts : InsertAttempt(b, a)
    \/ \E a \in Attempts : RunOutOfTime(a)
    \/ \E u \in Submits :
          \/ WriteAnswers(u) \/ ReadAnswers(u) \/ ReadQuestions(u)
          \/ StoreScore(u) \/ FailSubmit(u)
          \/ \E a \in Attempts, answers \in SUBSET questions : BeginSubmit(u, a, answers)

CbtSpec == CbtInit /\ [][CbtNext]_cbtVars

CbtTypeOK ==
    /\ exam \in {"none", "draft", "published"} /\ questions \subseteq Questions
    /\ authoring \in BOOLEAN
    /\ attempt \in [Attempts -> [status : {"none", "in_progress", "submitted"},
                     answers : SUBSET Questions, score : 0 .. Cardinality(Questions),
                     max : 0 .. Cardinality(Questions)]]
    /\ starting \subseteq Starts /\ started \subseteq Starts
    /\ submitting \in [Submits -> [pc : SubmitPcs, attempt : Attempts \cup {NoAttempt},
                     answers : SUBSET Questions, paper : SUBSET Questions]]
    /\ late \subseteq Attempts /\ contested \subseteq Attempts /\ hasty \in BOOLEAN

-----------------------------------------------------------------------------
\* Submitted, and no request that was let in before is still under way.
Handed(a) ==
    /\ attempt[a].status = "submitted"
    /\ \A u \in Submits : submitting[u].attempt = a => ~Underway(u)

\* Two submits that work on one attempt, and an exam that is published before
\* its author has stored all the questions, may leave another score.
Marked(a) ==
    a \in contested \/ hasty \/ ~Handed(a)
      \/ /\ attempt[a].score = Cardinality(attempt[a].answers)
         /\ attempt[a].max = Cardinality(questions)

(***************************************************************************)
(* A submitted attempt stands: when the requests that were let in before   *)
(* it was submitted are through, its answers and its score never change    *)
(* again, and no request is let in.  Its score is the number of its stored *)
(* answers that are right, out of all the questions of the exam.           *)
(* (cbt.service.ts submitAnswers, "Attempt already submitted", which a     *)
(* read of its own checks, and scoreAttempt.)                              *)
(***************************************************************************)
AttemptsSound ==
    [][\A a \in Attempts :
          /\ Marked(a)'
          /\ Handed(a) => Handed(a)' /\ attempt'[a] = attempt[a]]_cbtVars
=============================================================================
