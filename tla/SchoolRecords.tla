---------------------------- MODULE SchoolRecords ----------------------------
(***************************************************************************)
(* What a school keeps of a student and of its year: the report cards, and *)
(* the sessions and terms.                                                 *)
(***************************************************************************)
EXTENDS ReportCards, AcademicCalendar

(***************************************************************************)
(* What a school keeps of its terms and its results agrees with itself.    *)
(* (academic.service.ts, the calendar and generateScoreSheetResult.)       *)
(***************************************************************************)
RecordsSound == LegacyInSync /\ CalendarSound
=============================================================================
