----------------------------- MODULE MCComponents -----------------------------
(***************************************************************************)
(* One instance of each of the components that share no state with the     *)
(* others, explored side by side: a behaviour picks one of them, part, and *)
(* takes its steps only.                                                   *)
(***************************************************************************)
EXTENDS ListCache, SchoolRecords, Cbt, Rosters, Library, Tutoring, Charges,
        TenantIntake, StaffAttendance, Accounts,
        TimetableSync, Exeats, Providers

VARIABLE part

\* What each event adds to its meter, and the hours a slot may take.
MCQuantity == [e \in EventIds |-> 2]
MCWindows == {[day |-> 1, from |-> 1, to |-> 3], [day |-> 1, from |-> 2, to |-> 3]}

Parts == {"list", "marks", "calendar", "cbt", "links", "library", "tutoring", "usage",
          "intake", "attendance", "promotions", "onboarding", "family", "timetable",
          "sync", "exeats", "switch", "upkeep", "deals"}

\* A component that is not explored starts in one way only.
Init ==
    /\ part \in Parts
    /\ ListInit /\ CalendarInit /\ CbtInit /\ LibraryInit /\ TutoringInit
    /\ UsageInit /\ IntakeInit /\ AttendanceInit /\ OnboardingInit
    /\ TimetableInit /\ SyncInit
    /\ MarksInit /\ (part = "marks" \/ marksCast = Editors)
    /\ LinksInit /\ (part = "links" \/ linked = {})
    /\ PromotionInit /\ (part = "promotions" \/ enrolled = {CHOOSE class \in Classes : TRUE})
    /\ FamilyInit /\ (part = "family" \/ \A c \in Archivers : archiver[c].pc = "new")
    /\ ExeatInit /\ (part = "exeats" \/ exeat.status = "pending_parent")
    /\ SwitchInit /\ (part = "switch"
                       \/ (ProviderRows = {} /\ \A t \in HealthTests : test[t].pc = "new"))
    /\ UpkeepInit /\ (part = "upkeep"
                       \/ (policy.threshold = 2 /\ \A r \in Rotations : upkeep[r].pc = "new"))
    /\ DealInit /\ (part = "deals" \/ \A m \in DealMakers : office[m].pc = "new")

OthersStay ==
    /\ UNCHANGED part
    /\ IF part = "list" THEN TRUE ELSE UNCHANGED listVars
    /\ IF part = "marks" THEN TRUE ELSE UNCHANGED marksVars
    /\ IF part = "calendar" THEN TRUE ELSE UNCHANGED calendarVars
    /\ IF part = "cbt" THEN TRUE ELSE UNCHANGED cbtVars
    /\ IF part = "links" THEN TRUE ELSE UNCHANGED linksVars
    /\ IF part = "library" THEN TRUE ELSE UNCHANGED libraryVars
    /\ IF part = "tutoring" THEN TRUE ELSE UNCHANGED tutoringVars
    /\ IF part = "usage" THEN TRUE ELSE UNCHANGED usageVars
    /\ IF part = "intake" THEN TRUE ELSE UNCHANGED intakeVars
    /\ IF part = "attendance" THEN TRUE ELSE UNCHANGED attendanceVars
    /\ IF part = "promotions" THEN TRUE ELSE UNCHANGED promotionVars
    /\ IF part = "onboarding" THEN TRUE ELSE UNCHANGED onboardingVars
    /\ IF part = "family" THEN TRUE ELSE UNCHANGED familyVars
    /\ IF part = "timetable" THEN TRUE ELSE UNCHANGED timetableVars
    /\ IF part = "sync" THEN TRUE ELSE UNCHANGED syncVars
    /\ IF part = "exeats" THEN TRUE ELSE UNCHANGED exeatVars
    /\ IF part = "switch" THEN TRUE ELSE UNCHANGED switchVars
    /\ IF part = "upkeep" THEN TRUE ELSE UNCHANGED upkeepVars
    /\ IF part = "deals" THEN TRUE ELSE UNCHANGED dealVars

List == part = "list" /\ ListNext /\ OthersStay
Marking == part = "marks" /\ MarksNext /\ OthersStay
Calendar == part = "calendar" /\ CalendarNext /\ OthersStay
Testing == part = "cbt" /\ CbtNext /\ OthersStay
Linking == part = "links" /\ LinksNext /\ OthersStay
Lending == part = "library" /\ LibraryNext /\ OthersStay
Tutor == part = "tutoring" /\ TutoringNext /\ OthersStay
Metering == part = "usage" /\ UsageNext /\ OthersStay
Intake == part = "intake" /\ IntakeNext /\ OthersStay
SigningInStaff == part = "attendance" /\ AttendanceNext /\ OthersStay
Promoting == part = "promotions" /\ PromotionNext /\ OthersStay
Onboard == part = "onboarding" /\ OnboardingNext /\ OthersStay
KeepFamily == part = "family" /\ FamilyNext /\ OthersStay
Scheduling == part = "timetable" /\ TimetableNext /\ OthersStay
SyncDevice == part = "sync" /\ SyncNext /\ OthersStay
LetOut == part = "exeats" /\ ExeatNext /\ OthersStay
SwitchProvider == part = "switch" /\ SwitchNext /\ OthersStay
Maintain == part = "upkeep" /\ UpkeepNext /\ OthersStay
Dealing == part = "deals" /\ DealNext /\ OthersStay

Next == \/ List \/ Marking \/ Calendar \/ Testing \/ Linking \/ Lending \/ Tutor
        \/ Metering \/ Intake \/ SigningInStaff \/ Promoting \/ Onboard \/ KeepFamily
        \/ Scheduling \/ SyncDevice \/ LetOut \/ SwitchProvider \/ Maintain \/ Dealing

componentVars == <<part, listVars, marksVars, calendarVars, cbtVars, linksVars, libraryVars,
    tutoringVars, usageVars, intakeVars, attendanceVars, promotionVars, onboardingVars,
    familyVars, timetableVars, syncVars, exeatVars, switchVars, upkeepVars, dealVars>>

Spec == Init /\ [][Next]_componentVars

(***************************************************************************)
(* The rows and the requests of the component that is explored keep their  *)
(* types.                                                                  *)
(***************************************************************************)
TypeOK ==
    CASE part = "list" -> ListTypeOK
      [] part = "marks" -> MarksTypeOK
      [] part = "calendar" -> CalendarTypeOK
      [] part = "cbt" -> CbtTypeOK
      [] part = "links" -> LinksTypeOK
      [] part = "library" -> LibraryTypeOK
      [] part = "tutoring" -> TutoringTypeOK
      [] part = "usage" -> UsageTypeOK
      [] part = "intake" -> IntakeTypeOK
      [] part = "attendance" -> AttendanceTypeOK
      [] part = "promotions" -> PromotionTypeOK
      [] part = "onboarding" -> OnboardingTypeOK
      [] part = "family" -> FamilyTypeOK
      [] part = "timetable" -> TimetableTypeOK
      [] part = "sync" -> SyncTypeOK
      [] part = "exeats" -> ExeatTypeOK
      [] part = "switch" -> SwitchTypeOK
      [] part = "upkeep" -> UpkeepTypeOK
      [] part = "deals" -> DealTypeOK
=============================================================================
