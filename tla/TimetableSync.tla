---- MODULE TimetableSync ----
(***************************************************************************)
(* What requests and offline devices write: the slots of the timetable,    *)
(* and the operations that a device sends again.                           *)
(***************************************************************************)
EXTENDS Timetable, OfflineSync

(***************************************************************************)
(* Slots do not clash, and what a device sends again is not done again.    *)
(* (timetable.service.ts, sync.service.ts.)                                *)
(***************************************************************************)
SlotsSound == ClashesAreUnseen /\ SyncedOnce
====
