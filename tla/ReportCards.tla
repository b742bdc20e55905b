----------------------------- MODULE ReportCards -----------------------------
(***************************************************************************)
(* The marks of one student in one class and term: score sheets, the       *)
(* result generated from them, and the academic_results rows the older     *)
(* report card still reads.  Nothing locks: every handler reads, decides,  *)
(* and writes by statements that commit one by one.                        *)
(***************************************************************************)
EXTENDS Integers, FiniteSets, Functions

CONSTANTS Sheets,      \* ids academic_score_sheets rows may get
          NoSheet, NoGenerator, NoRow,
          Subjects,    \* each with one category of scores
          Scores,      \* the marks a sheet may carry
          Editors,     \* requests to save, publish or delete sheets
          Generators,  \* requests to generate the result
          Releasers,   \* requests to release it
          Hands,       \* upsertResult, approveResult, deleteResult requests
          MarkCasts    \* sets of requests that are made

ASSUME ReportCardsAssumption ==
    /\ Scores \subseteq Nat \ {0} /\ Subjects # {}
    /\ NoSheet \notin Sheets /\ NoGenerator \notin Generators
    /\ MarkCasts \subseteq SUBSET (Editors \cup Generators \cup Releasers \cup Hands)

VARIABLES
    sheet,       \* academic_score_sheets
    editing,     \* what each edit has decided
    result,      \* the academic_generated_results row
    generating,  \* where each generation is
    releasing,   \* release requests that found the result unreleased
    legacy,      \* academic_results: rows, named by the request that inserted them
    hand,        \* what the requests on them have read
    solo,        \* ghost: the generation that has had legacy to itself so far
    torn,        \* ghost: legacy may lag: since the result was written, or a row
                 \* edited by hand, no generation has got through by itself
    marksCast    \* the requests still to be made or under way

marksVars == <<sheet, editing, result, generating, releasing, legacy, hand,
               solo, torn, marksCast>>

Records == [Subjects -> Nat]
SheetRows == [status : {"none", "draft", "published", "deleted"},
              subject : Subjects, score : Scores \cup {0}]
Edits == [op : {"none", "insert", "update", "publish", "delete"},
          of : SUBSET Sheets, subject : Subjects, score : Scores \cup {0},
          status : {"draft", "published"}]
LegacyStatuses == {"draft", "submitted", "approved"}
LegacyIds == (Generators \cup Hands) \X Subjects \cup {NoRow}
GenerationRows == [pc : {"new", "check", "write", "find", "put", "done"},
                   records : Records, found : BOOLEAN, left : SUBSET Subjects,
                   row : LegacyIds, subject : Subjects]

AnySubject == CHOOSE sub \in Subjects : TRUE
NoEdit == [op |-> "none", of |-> {}, subject |-> AnySubject, score |-> 0,
           status |-> "draft"]
NoSheetRow == [status |-> "none", subject |-> AnySubject, score |-> 0]
NoRecords == [sub \in Subjects |-> 0]
IdleGeneration == [pc |-> "new", records |-> NoRecords, found |-> FALSE,
                   left |-> {}, row |-> NoRow, subject |-> AnySubject]
NoHand == [op |-> "none", row |-> NoRow, total |-> 0, status |-> "draft"]

Live(s) == sheet[s].status \in {"draft", "published"}
SheetsOf(sub) == {s \in Sheets : Live(s) /\ sheet[s].subject = sub}

LegacyOf(sub) == {row \in legacy : row.subject = sub}
\* legacy with the row of this id updated.
Rewrite(id, total, status) ==
    {IF row.id = id THEN [row EXCEPT !.total = total, !.status = status] ELSE row :
        row \in legacy}

\* previewScoreSheets for a teacher of these subjects: what the live sheets of
\* each add up to, drafts too.
Preview(taught) == [sub \in Subjects |->
    IF sub \in taught THEN SumFunctionOnSet([s \in Sheets |-> sheet[s].score], SheetsOf(sub))
                      ELSE 0]

-----------------------------------------------------------------------------
(* Mutations of definitions below; not part of the specification.          *)

\* A published sheet can be saved again.
MutEditable(s) == Live(s)
\* A released result is generated again.
MutMayGenerate == TRUE
\* A result that is there already leaves the older report card as it is.
MutPutLegacy(g) ==
    LET at == generating[g] IN
    /\ at.pc = "put"
    /\ legacy' = IF at.row = NoRow
         THEN legacy \cup {[id |-> <<g, at.subject>>, subject |-> at.subject,
                            total |-> at.records[at.subject], status |-> "submitted"]}
         ELSE legacy
    /\ generating' = [generating EXCEPT ![g].pc = "find", ![g].left = @ \ {at.subject}]
    /\ UNCHANGED <<sheet, editing, result, releasing, hand, solo, torn, marksCast>>

-----------------------------------------------------------------------------
MarksInit ==
    /\ sheet = [s \in Sheets |-> NoSheetRow]
    /\ editing = [e \in Editors |-> NoEdit]
    /\ result = [status |-> "none", records |-> NoRecords]
    /\ generating = [g \in Generators |-> IdleGeneration]
    /\ releasing = {} /\ legacy = {} /\ hand = [k \in Hands |-> NoHand]
    /\ solo = NoGenerator /\ torn = FALSE
    /\ marksCast \in MarkCasts

-----------------------------------------------------------------------------
(* Score sheets.  Each entry of a saved batch is an edit of its own.       *)

BeginEdit(e, edit) ==
    /\ e \in marksCast /\ editing[e].op = "none"
    /\ editing' = [editing EXCEPT ![e] = edit]
    /\ UNCHANGED <<sheet, result, generating, releasing, legacy, hand, solo, torn, marksCast>>

Editable(s) == sheet[s].status = "draft"

\* saveScoreSheetBatch, up to its write.  An entry names the row it changes;
\* without an id a row that is there already is refused, for the columns the
\* selection is compared with are not read.
BeginSave(e, s, sub, score, status) ==
    /\ IF s # NoSheet /\ Live(s)
         THEN sheet[s].subject = sub /\ Editable(s)
         ELSE s = NoSheet => SheetsOf(sub) = {}
    /\ BeginEdit(e, [op |-> IF s # NoSheet /\ Live(s) THEN "update" ELSE "insert",
                     of |-> IF s # NoSheet /\ Live(s) THEN {s} ELSE {},
                     subject |-> sub, score |-> score, status |-> status])

BeginPublish(e, S) ==
    /\ S # {} /\ \A s \in S : sheet[s].status = "draft"
    /\ BeginEdit(e, [NoEdit EXCEPT !.op = "publish", !.of = S])

\* Only the teacher who recorded a draft deletes it.
BeginDelete(e, s) ==
    /\ sheet[s].status = "draft"
    /\ BeginEdit(e, [NoEdit EXCEPT !.op = "delete", !.of = {s}])

\* The statement of an edit.  None of them looks at the status again.
Edited(edit, row) ==
    CASE edit.op = "update"  -> [row EXCEPT !.score = edit.score, !.status = edit.status]
      [] edit.op = "publish" -> [row EXCEPT !.status = "published"]
      [] edit.op = "delete"  -> [row EXCEPT !.status = "deleted"]
      [] OTHER -> row

CommitEdit(e) ==
    LET edit == editing[e] IN
    /\ edit.op \in {"update", "publish", "delete"}
    /\ sheet' = [s \in Sheets |->
          IF s \in edit.of /\ Live(s) THEN Edited(edit, sheet[s]) ELSE sheet[s]]
    /\ editing' = [editing EXCEPT ![e] = NoEdit]
    /\ marksCast' = marksCast \ {e}
    /\ UNCHANGED <<result, generating, releasing, legacy, hand, solo, torn>>

InsertSheet(e, s) ==
    LET edit == editing[e] IN
    /\ edit.op = "insert" /\ sheet[s].status = "none"
    /\ sheet' = [sheet EXCEPT ![s] = [status |-> edit.status,
                    subject |-> edit.subject, score |-> edit.score]]
    /\ editing' = [editing EXCEPT ![e] = NoEdit]
    /\ marksCast' = marksCast \ {e}
    /\ UNCHANGED <<result, generating, releasing, legacy, hand, solo, torn>>

-----------------------------------------------------------------------------
(* generateScoreSheetResult.                                               *)

Generating(g) == generating[g].pc \notin {"new", "done"}
Syncing(g) == generating[g].pc \in {"find", "put"}

PreviewMarks(g, taught) ==
    /\ g \in marksCast /\ generating[g].pc = "new"
    /\ \E s \in Sheets : Live(s) /\ sheet[s].subject \in taught
    /\ generating' = [generating EXCEPT ![g].pc = "check", ![g].records = Preview(taught)]
    /\ UNCHANGED <<sheet, editing, result, releasing, legacy, hand, solo, torn, marksCast>>

\* "Approved results cannot be regenerated".
MayGenerate == result.status # "approved"

CheckRelease(g) ==
    /\ generating[g].pc = "check"
    /\ generating' = [generating EXCEPT
          ![g].pc = IF MayGenerate THEN "write" ELSE "done",
          ![g].found = result.status # "none"]
    /\ UNCHANGED <<sheet, editing, result, releasing, legacy, hand, solo, torn, marksCast>>

\* An UPDATE of the row that was found, or an INSERT, which fails when another
\* has inserted the row meanwhile.  The result is pending again.
WriteResult(g) ==
    /\ generating[g].pc = "write"
    /\ IF generating[g].found \/ result.status = "none"
         THEN /\ result' = [status |-> "pending", records |-> generating[g].records]
              /\ generating' = [generating EXCEPT ![g].pc = "find",
                    ![g].left = {sub \in Subjects : generating[g].records[sub] # 0}]
              /\ solo' = IF \E h \in Generators : Syncing(h) THEN NoGenerator ELSE g
              /\ torn' = TRUE
         ELSE /\ generating' = [generating EXCEPT ![g].pc = "done"]
              /\ UNCHANGED <<result, solo, torn>>
    /\ UNCHANGED <<sheet, editing, releasing, legacy, hand, marksCast>>

\* "Keep the legacy report-card reader in sync": for each subject, some row of
\* it is looked up ...
FindLegacy(g, sub) ==
    /\ generating[g].pc = "find" /\ sub \in generating[g].left
    /\ \E found \in IF LegacyOf(sub) = {} THEN {NoRow} ELSE {row.id : row \in LegacyOf(sub)} :
          generating' = [generating EXCEPT ![g].pc = "put", ![g].row = found, ![g].subject = sub]
    /\ UNCHANGED <<sheet, editing, result, releasing, legacy, hand, solo, torn, marksCast>>

\* ... and updated, or one is inserted.
PutLegacy(g) ==
    LET at == generating[g] IN
    /\ at.pc = "put"
    /\ legacy' = IF at.row = NoRow
         THEN legacy \cup {[id |-> <<g, at.subject>>, subject |-> at.subject,
                            total |-> at.records[at.subject], status |-> "submitted"]}
         ELSE Rewrite(at.row, at.records[at.subject], "submitted")
    /\ generating' = [generating EXCEPT ![g].pc = "find", ![g].left = @ \ {at.subject}]
    /\ UNCHANGED <<sheet, editing, result, releasing, hand, solo, torn, marksCast>>

EndGeneration(g) ==
    /\ generating[g].pc = "find" /\ generating[g].left = {}
    /\ generating' = [generating EXCEPT ![g].pc = "done"]
    /\ torn' = (torn /\ solo # g)
    /\ UNCHANGED <<sheet, editing, result, releasing, legacy, hand, solo, marksCast>>

\* A statement fails, or the server stops.
AbandonGeneration(g) ==
    /\ Generating(g)
    /\ generating' = [generating EXCEPT ![g] = [IdleGeneration EXCEPT !.pc = "done"]]
    /\ UNCHANGED <<sheet, editing, result, releasing, legacy, hand, solo, torn, marksCast>>

-----------------------------------------------------------------------------
(* releaseGeneratedResult.                                                 *)

BeginRelease(a) ==
    /\ a \in marksCast \ releasing /\ result.status = "pending"
    /\ releasing' = releasing \cup {a}
    /\ UNCHANGED <<sheet, editing, result, generating, legacy, hand, solo, torn, marksCast>>

Release(a) ==
    /\ a \in releasing
    /\ result' = [result EXCEPT !.status = "approved"]
    /\ releasing' = releasing \ {a}
    /\ marksCast' = marksCast \ {a}
    /\ UNCHANGED <<sheet, editing, generating, legacy, hand, solo, torn>>

-----------------------------------------------------------------------------
(* academic_results by hand.                                               *)

Disturb == solo' = NoGenerator /\ torn' = TRUE

\* upsertResult without an id.
InsertByHand(k, sub, total, status) ==
    /\ k \in marksCast /\ hand[k].op = "none"
    /\ legacy' = legacy \cup {[id |-> <<k, sub>>, subject |-> sub, total |-> total,
                               status |-> status]}
    /\ Disturb
    /\ marksCast' = marksCast \ {k}
    /\ UNCHANGED <<sheet, editing, result, generating, releasing, hand>>

\* upsertResult with an id: the total and the status that were read are written
\* back unless the request brings others; a total of 0 is none.
BeginUpdate(k, row, total, status) ==
    /\ k \in marksCast /\ hand[k].op = "none"
    /\ hand' = [hand EXCEPT ![k] = [op |-> "update", row |-> row.id,
          total |-> IF total = 0 THEN row.total ELSE total,
          status |-> IF status = "unset" THEN row.status ELSE status]]
    /\ UNCHANGED <<sheet, editing, result, generating, releasing, legacy, solo, torn, marksCast>>

BeginApprove(k, row) ==
    /\ k \in marksCast /\ hand[k].op = "none" /\ row.status # "approved"
    /\ hand' = [hand EXCEPT ![k] = [op |-> "approve", row |-> row.id, total |-> 0,
                                    status |-> "approved"]]
    /\ UNCHANGED <<sheet, editing, result, generating, releasing, legacy, solo, torn, marksCast>>

CommitHand(k) ==
    /\ hand[k].op # "none"
    /\ \/ /\ hand[k].op = "update"
          /\ legacy' = Rewrite(hand[k].row, hand[k].total, hand[k].status)
          /\ Disturb
       \/ /\ hand[k].op = "approve"
          /\ legacy' = {[row EXCEPT !.status =
                            IF row.id = hand[k].row THEN "approved" ELSE @] : row \in legacy}
          /\ UNCHANGED <<solo, torn>>
    /\ hand' = [hand EXCEPT ![k] = NoHand]
    /\ marksCast' = marksCast \ {k}
    /\ UNCHANGED <<sheet, editing, result, generating, releasing>>

ApproveBatch(k) ==
    /\ k \in marksCast /\ hand[k].op = "none"
    /\ legacy' = {[row EXCEPT !.status = "approved"] : row \in legacy}
    /\ marksCast' = marksCast \ {k}
    /\ UNCHANGED <<sheet, editing, result, generating, releasing, hand, solo, torn>>

DeleteResult(k, row) ==
    /\ k \in marksCast /\ hand[k].op = "none"
    /\ legacy' = legacy \ {row}
    /\ Disturb
    /\ marksCast' = marksCast \ {k}
    /\ UNCHANGED <<sheet, editing, result, generating, releasing, hand>>

-----------------------------------------------------------------------------
EditSheets ==
    \E e \in Editors :
       \/ CommitEdit(e)
       \/ \E s \in Sheets : InsertSheet(e, s) \/ BeginDelete(e, s)
       \/ \E S \in SUBSET Sheets : BeginPublish(e, S)
       \/ \E s \in Sheets \cup {NoSheet}, sub \in Subjects, score \in Scores,
             status \in {"draft", "published"} : BeginSave(e, s, sub, score, status)

GenerateResult ==
    \E g \in Generators :
       \/ \E taught \in SUBSET Subjects : PreviewMarks(g, taught)
       \/ CheckRelease(g) \/ WriteResult(g) \/ PutLegacy(g) \/ EndGeneration(g) \/ AbandonGeneration(g)
       \/ \E sub \in Subjects : FindLegacy(g, sub)

ReleaseResult == \E a \in Releasers : BeginRelease(a) \/ Release(a)

EditByHand ==
    \E k \in Hands :
       \/ CommitHand(k) \/ ApproveBatch(k)
       \/ \E row \in legacy : BeginApprove(k, row) \/ DeleteResult(k, row)
       \/ \E row \in legacy, total \in Scores \cup {0},
             status \in {"draft", "submitted", "unset"} :
             BeginUpdate(k, row, total, status)
       \/ \E sub \in Subjects, total \in Scores, status \in {"draft", "submitted"} :
             InsertByHand(k, sub, total, status)

MarksNext == EditSheets \/ GenerateResult \/ ReleaseResult \/ EditByHand

MarksSpec == MarksInit /\ [][MarksNext]_marksVars

MarksTypeOK ==
    /\ sheet \in [Sheets -> SheetRows] /\ editing \in [Editors -> Edits]
    /\ result \in [status : {"none", "pending", "approved"}, records : Records]
    /\ generating \in [Generators -> GenerationRows]
    /\ releasing \subseteq Releasers
    /\ \A row \in legacy : row.subject \in Subjects /\ row.status \in LegacyStatuses
    /\ hand \in [Hands -> [op : {"none", "update", "approve"}, row : LegacyIds,
                           total : Nat, status : LegacyStatuses]]
    /\ solo \in Generators \cup {NoGenerator} /\ torn \in BOOLEAN

-----------------------------------------------------------------------------
\* No edit decided on the sheet as it was before it was published.
Frozen(s) ==
    /\ sheet[s].status = "published"
    /\ \A e \in Editors : s \notin editing[e].of

\* No generation is past the check it made before the release.
Final ==
    /\ result.status = "approved"
    /\ \A g \in Generators : generating[g].pc # "write"

(***************************************************************************)
(* Published marks stand and a released result stands: once the requests   *)
(* that had decided before the publication or the release are through,     *)
(* nothing changes them.  (The status is only looked at by the read before *)
(* each write: academic.service.ts saveScoreSheetBatch, publishScoreSheets, *)
(* deleteScoreSheet, generateScoreSheetResult.)                            *)
(***************************************************************************)
MarksStand ==
    [][/\ \A s \in Sheets : Frozen(s) => Frozen(s)' /\ sheet'[s] = sheet[s]
       /\ Final => Final' /\ result' = result]_marksVars

(***************************************************************************)
(* The older report card agrees with the generated result on every subject *)
(* of it, when the last generation got through without another one, and    *)
(* without an edit by hand, between its writes; earlier generations that   *)
(* failed half-way or overlapped do not matter.  (generateScoreSheetResult: *)
(* "Keep the legacy report-card reader in sync".)                          *)
(***************************************************************************)
LegacyInSync ==
    torn \/ \A sub \in Subjects : result.records[sub] = 0
                \/ \E row \in LegacyOf(sub) : row.total = result.records[sub]
=============================================================================
