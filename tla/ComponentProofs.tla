--------------------------- MODULE ComponentProofs ---------------------------
(***************************************************************************)
(* The components side by side: whichever of them a behaviour of           *)
(* MCComponents explores, each one starts and steps as its own             *)
(* specification says, and so what is proved of it holds there.            *)
(***************************************************************************)
EXTENDS MCComponents, ServicesProofs, SchoolProofs

\* One component moves, and the others stay.
LEMMA OneMoves ==
    ASSUME [Next]_componentVars
    PROVE  /\ UNCHANGED part
           /\ [ListNext]_listVars
           /\ [MarksNext]_marksVars
           /\ [CalendarNext]_calendarVars
           /\ [CbtNext]_cbtVars
           /\ [LinksNext]_linksVars
           /\ [LibraryNext]_libraryVars
           /\ [TutoringNext]_tutoringVars
           /\ [UsageNext]_usageVars
           /\ [IntakeNext]_intakeVars
           /\ [AttendanceNext]_attendanceVars
           /\ [PromotionNext]_promotionVars
           /\ [OnboardingNext]_onboardingVars
           /\ [FamilyNext]_familyVars
           /\ [TimetableNext]_timetableVars
           /\ [SyncNext]_syncVars
           /\ [ExeatNext]_exeatVars
           /\ [SwitchNext]_switchVars
           /\ [UpkeepNext]_upkeepVars
           /\ [DealNext]_dealVars
<1>1. CASE UNCHANGED componentVars
      BY <1>1 DEF componentVars
<1>2. CASE List
      BY <1>2 DEF List, OthersStay
<1>3. CASE Marking
      BY <1>3 DEF Marking, OthersStay
<1>4. CASE Calendar
      BY <1>4 DEF Calendar, OthersStay
<1>5. CASE Testing
      BY <1>5 DEF Testing, OthersStay
<1>6. CASE Linking
      BY <1>6 DEF Linking, OthersStay
<1>7. CASE Lending
      BY <1>7 DEF Lending, OthersStay
<1>8. CASE Tutor
      BY <1>8 DEF Tutor, OthersStay
<1>9. CASE Metering
      BY <1>9 DEF Metering, OthersStay
<1>10. CASE Intake
       BY <1>10 DEF Intake, OthersStay
<1>11. CASE SigningInStaff
       BY <1>11 DEF SigningInStaff, OthersStay
<1>12. CASE Promoting
       BY <1>12 DEF Promoting, OthersStay
<1>13. CASE Onboard
       BY <1>13 DEF Onboard, OthersStay
<1>14. CASE KeepFamily
       BY <1>14 DEF KeepFamily, OthersStay
<1>15. CASE Scheduling
       BY <1>15 DEF Scheduling, OthersStay
<1>16. CASE SyncDevice
       BY <1>16 DEF SyncDevice, OthersStay
<1>17. CASE LetOut
       BY <1>17 DEF LetOut, OthersStay
<1>18. CASE SwitchProvider
       BY <1>18 DEF SwitchProvider, OthersStay
<1>19. CASE Maintain
       BY <1>19 DEF Maintain, OthersStay
<1>20. CASE Dealing
       BY <1>20 DEF Dealing, OthersStay
<1>21. QED BY <1>1, <1>2, <1>3, <1>4, <1>5, <1>6, <1>7, <1>8, <1>9, <1>10, <1>11, <1>12, <1>13,
              <1>14, <1>15, <1>16, <1>17, <1>18, <1>19, <1>20 DEF Next

\* Each component runs as its specification says.
LEMMA EachRuns ==
    Spec => /\ [](part \in Parts)
            /\ ListSpec
            /\ MarksSpec
            /\ CalendarSpec
            /\ CbtInit /\ [][CbtNext]_cbtVars
            /\ LinksSpec
            /\ LibrarySpec
            /\ TutoringSpec
            /\ UsageSpec
            /\ IntakeSpec
            /\ AttendanceSpec
            /\ PromotionSpec
            /\ OnboardingSpec
            /\ FamilySpec
            /\ TimetableSpec
            /\ SyncSpec
            /\ ExeatInit /\ [][ExeatNext]_exeatVars
            /\ SwitchSpec
            /\ UpkeepSpec
            /\ DealSpec
<1>1. Init => /\ part \in Parts
              /\ ListInit /\ MarksInit /\ CalendarInit /\ CbtInit /\ LinksInit
              /\ LibraryInit /\ TutoringInit /\ UsageInit /\ IntakeInit /\ AttendanceInit
              /\ PromotionInit /\ OnboardingInit /\ FamilyInit /\ TimetableInit /\ SyncInit
              /\ ExeatInit /\ SwitchInit /\ UpkeepInit /\ DealInit
      BY DEF Init
<1>2. part \in Parts /\ UNCHANGED part => (part \in Parts)'
      OBVIOUS
<1>3. QED BY <1>1, <1>2, OneMoves, PTL
          DEF Spec, ListSpec, MarksSpec, CalendarSpec, LinksSpec, LibrarySpec,
              TutoringSpec, UsageSpec, IntakeSpec, AttendanceSpec, PromotionSpec,
              OnboardingSpec, FamilySpec, TimetableSpec, SyncSpec, SwitchSpec,
              UpkeepSpec, DealSpec

(***************************************************************************)
(* The rows and the requests of every component keep their types, and with *)
(* them what the types bound: the counts that no request exceeds, what is  *)
(* current among the rows there are, and rows under ids that were given    *)
(* out.  (MCComponents.TypeOK.)                                            *)
(***************************************************************************)
THEOREM ComponentTypes == Spec => []TypeOK
<1>1. /\ part \in Parts
      /\ ListTypeOK
      /\ MarksTypeOK
      /\ CalendarTypeOK
      /\ CbtTypeOK
      /\ LinksTypeOK
      /\ LibraryTypeOK
      /\ TutoringTypeOK
      /\ UsageTypeOK
      /\ IntakeTypeOK
      /\ AttendanceTypeOK
      /\ PromotionTypeOK
      /\ OnboardingTypeOK
      /\ FamilyTypeOK
      /\ TimetableTypeOK
      /\ SyncTypeOK
      /\ ExeatTypeOK
      /\ SwitchTypeOK
      /\ UpkeepTypeOK
      /\ DealTypeOK
      => TypeOK
      BY DEF Parts, TypeOK
<1>2. QED BY <1>1, EachRuns, ListTypes, MarksTypesHold, CalendarTypesHold, CbtTypesHold,
             LinksTypesHold, ShelfTypesHold, TutoringTypesHold, UsageTypesHold,
             IntakeTypesHold, AttendanceTypesHold, PromotionTypesHold, OnboardingTypesHold,
             FamilyTypesHold, TimetableTypesHold, SyncTypesHold, ExeatTypesHold,
             SwitchTypesHold, UpkeepTypesHold, DealTypesHold, PTL

(***************************************************************************)
(* What is proved of each component by itself holds of the components side *)
(* by side: every invariant and every action property of their run.        *)
(***************************************************************************)
THEOREM ComponentsAreSound ==
    Spec => /\ [](ReadsAreCurrent /\ RecordsSound /\ RostersAgree /\ ShelfCount)
            /\ [](BookingsPaidFor /\ ChargesSound /\ IntakeSound /\ SignInsCounted)
            /\ [](AccountsAgree /\ SlotsSound /\ ExitsAllowed /\ ProvidersSound)
            /\ MarksStand /\ AttemptsSound
BY EachRuns, ListsAreCurrent, RecordsAreSound, RostersAreAgreed, ShelvesAddUp, TutoringIsPaidFor,
   ChargesAreSound, IntakeIsSound, SignInsAreCounted, AccountsDoAgree, SlotsAreSound,
   ExitsAreAllowed, ProvidersAreSound, MarksDoStand, AttemptsAreSound, PTL DEF MarksSpec
=============================================================================
