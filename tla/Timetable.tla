------------------------------ MODULE Timetable ------------------------------
(***************************************************************************)
(* The slots of the timetable: planned and moved by requests that look for *)
(* clashes of the class, then of the teacher, and then write; removed; and *)
(* added by offline devices, which look for nothing.  The moves a solver   *)
(* applies are reschedules, one after another.                             *)
(***************************************************************************)
EXTENDS Naturals, FiniteSets

CONSTANTS SlotPlanners,  \* requests; one that creates a slot names it
          SlotClasses, SlotTeachers, NoTeacher,
          Windows        \* [day, from, to] with from < to

VARIABLES
    slots,     \* timetable_slots
    planner,   \* where each request is, and the slot it is about to write
    unseen     \* ghost: pairs of slots where the later write could not see the other

timetableVars == <<slots, planner, unseen>>

NoSlot == [class |-> "none", teacher |-> "none", window |-> "none"]
IdlePlanner == [pc |-> "new", slot |-> "none", row |-> NoSlot, missed |-> {}]
PlannedSlots == {p \in SlotPlanners : slots[p] # NoSlot}
Planning(p) == planner[p].pc \in {"class", "teacher", "write"}
Overlap(a, b) == a.day = b.day /\ a.from < b.to /\ b.from < a.to

\* The others at work have not seen what is written to s.
OthersMiss(p, s) ==
    planner' = [q \in SlotPlanners |->
        IF q = p THEN [IdlePlanner EXCEPT !.pc = "done"]
        ELSE IF Planning(q) THEN [planner[q] EXCEPT !.missed = @ \cup {s}]
        ELSE planner[q]]

-----------------------------------------------------------------------------
(* Mutations of definitions below; not part of the specification.          *)

MutTaken(p, what) == \E s \in PlannedSlots \ {planner[p].slot} :
    slots[s][what] = planner[p].row[what] /\ slots[s].window = planner[p].row.window
MutLookForTeacher(p) ==
    /\ planner[p].pc = "teacher"
    /\ planner' = [planner EXCEPT ![p].pc = "write"]
    /\ UNCHANGED <<slots, unseen>>

-----------------------------------------------------------------------------
TimetableInit ==
    /\ slots = [p \in SlotPlanners |-> NoSlot]
    /\ planner = [p \in SlotPlanners |-> IdlePlanner]
    /\ unseen = {}

\* create, with a teacher or without.
PlanSlot(p, class, teacher, window) ==
    /\ planner[p].pc = "new"
    /\ planner' = [planner EXCEPT ![p] = [pc |-> "class", slot |-> p, missed |-> {},
          row |-> [class |-> class, teacher |-> teacher, window |-> window]]]
    /\ UNCHANGED <<slots, unseen>>

\* reschedule reads the slot's class and teacher, and leaves them as they are.
MoveSlot(p, s, window) ==
    /\ planner[p].pc = "new" /\ s \in PlannedSlots
    /\ planner' = [planner EXCEPT ![p] = [pc |-> "class", slot |-> s, missed |-> {},
          row |-> [slots[s] EXCEPT !.window = window]]]
    /\ UNCHANGED <<slots, unseen>>

Taken(p, what) == \E s \in PlannedSlots \ {planner[p].slot} :
    slots[s][what] = planner[p].row[what] /\ Overlap(slots[s].window, planner[p].row.window)

LookForClass(p) ==
    /\ planner[p].pc = "class"
    /\ planner' = [planner EXCEPT ![p].pc = IF Taken(p, "class") THEN "done" ELSE "teacher"]
    /\ UNCHANGED <<slots, unseen>>

LookForTeacher(p) ==
    /\ planner[p].pc = "teacher"
    /\ planner' = [planner EXCEPT ![p].pc =
          IF planner[p].row.teacher # NoTeacher /\ Taken(p, "teacher") THEN "done" ELSE "write"]
    /\ UNCHANGED <<slots, unseen>>

\* The insert, or the update of a slot that may be gone by now.
WriteSlot(p) ==
    /\ planner[p].pc = "write"
    /\ LET s == planner[p].slot IN
       IF s # p /\ slots[s] = NoSlot
       THEN planner' = [planner EXCEPT ![p].pc = "done"] /\ UNCHANGED <<slots, unseen>>
       ELSE /\ slots' = [slots EXCEPT ![s] = planner[p].row]
            /\ unseen' = {pair \in unseen : s \notin pair}
                            \cup {{s, t} : t \in planner[p].missed \ {s}}
            /\ OthersMiss(p, s)

RemoveSlot(p, s) ==
    /\ planner[p].pc = "new"
    /\ slots' = [slots EXCEPT ![s] = NoSlot]
    /\ planner' = [planner EXCEPT ![p].pc = "done"]
    /\ UNCHANGED unseen

\* SyncService.applySupported: the device's slot is inserted as it is; without
\* a teacher it is the user's own.
SyncSlot(p, class, teacher, window) ==
    /\ planner[p].pc = "new"
    /\ slots' = [slots EXCEPT ![p] = [class |-> class, teacher |-> teacher, window |-> window]]
    /\ unseen' = unseen \cup {{p, t} : t \in PlannedSlots \ {p}}
    /\ OthersMiss(p, p)

TimetableNext == \E p \in SlotPlanners :
    \/ \E class \in SlotClasses, window \in Windows :
          \/ \E teacher \in SlotTeachers \cup {NoTeacher} : PlanSlot(p, class, teacher, window)
          \/ \E teacher \in SlotTeachers : SyncSlot(p, class, teacher, window)
    \/ \E s \in SlotPlanners : RemoveSlot(p, s) \/ \E window \in Windows : MoveSlot(p, s, window)
    \/ LookForClass(p) \/ LookForTeacher(p) \/ WriteSlot(p)

TimetableSpec == TimetableInit /\ [][TimetableNext]_timetableVars

SlotRows == [class : SlotClasses, teacher : SlotTeachers \cup {NoTeacher}, window : Windows]
TimetableTypeOK ==
    /\ \A p \in SlotPlanners :
          /\ slots[p] \in SlotRows \cup {NoSlot}
          /\ planner[p].pc \in {"new", "class", "teacher", "write", "done"}
          /\ Planning(p) => planner[p].slot \in SlotPlanners /\ planner[p].row \in SlotRows
          /\ planner[p].missed \subseteq SlotPlanners
    /\ \A pair \in unseen : pair \subseteq SlotPlanners /\ Cardinality(pair) = 2

(***************************************************************************)
(* Two slots of one class or one teacher meet only when the request that   *)
(* wrote the later one could not see the other, because it was written     *)
(* meanwhile, or because the slot came from an offline device; a slot that *)
(* is moved alone meets no other.  (timetable.service.ts create,           *)
(* reschedule; sync.service.ts applySupported.)                            *)
(***************************************************************************)
ClashesAreUnseen ==
    \A s, t \in PlannedSlots :
       /\ s # t /\ {s, t} \notin unseen
       /\ \/ slots[s].class = slots[t].class
          \/ slots[s].teacher = slots[t].teacher /\ slots[s].teacher # NoTeacher
       => ~ Overlap(slots[s].window, slots[t].window)
=============================================================================
