------------------------ MODULE LessonDeliveryProofs -------------------------
(***************************************************************************)
(* The library, the curriculum rows and the classroom implement the        *)
(* enrolment core, for any number of sessions, intakes and students: each  *)
(* change of rows is a curriculum move of IntakeEnrollment, or none.  What *)
(* IntakeEnrollmentProofs shows of the core therefore holds here, and the  *)
(* promises made to learners follow from it.  The second part is about the *)
(* order indexes: the live lessons of an intake are always numbered 0, 1,  *)
(* ..., and every intermediate state of a renumbering keeps them apart.    *)
(***************************************************************************)
EXTENDS LessonDelivery, FiniteSetTheorems, TLAPS

curriculum == [i \in Intakes |-> Summary(i)]

CoreProofs == INSTANCE IntakeEnrollmentProofs

-----------------------------------------------------------------------------
(* Core and CoreProofs instantiate one module: what they define is the same.  *)

LEMMA SameAssumptions ==
    CoreProofs!CatalogAssumption /\ CoreProofs!CapacityAssumption /\ CoreProofs!SeedAssumption
<1>1. CoreProofs!CatalogAssumption /\ CoreProofs!SeedAssumption
  BY CoreAssumption DEF CoreProofs!CatalogAssumption, CoreProofs!SeedAssumption
<1>2. CoreProofs!CapacityAssumption
  BY CoreAssumption DEF CoreProofs!CapacityAssumption, CoreProofs!IsFiniteSet, IsFiniteSet
<1> QED
  BY <1>1, <1>2

LEMMA SameSets ==
    /\ Core!Seats = CoreProofs!Seats /\ Core!Active = CoreProofs!Active
    /\ Core!CatalogStates = CoreProofs!CatalogStates /\ Core!IntakeStates = CoreProofs!IntakeStates
    /\ Core!CurriculumStates = CoreProofs!CurriculumStates
    /\ Core!EnrollmentStates = CoreProofs!EnrollmentStates
    /\ Core!vars = CoreProofs!vars
BY DEF Core!Seats, CoreProofs!Seats, Core!Active, CoreProofs!Active, Core!CatalogStates, CoreProofs!CatalogStates,
   Core!IntakeStates, CoreProofs!IntakeStates, Core!CurriculumStates, CoreProofs!CurriculumStates,
   Core!EnrollmentStates, CoreProofs!EnrollmentStates, Core!vars, CoreProofs!vars, curriculum

LEMMA SameInit == Core!Init <=> CoreProofs!Init
BY Zenon DEF Core!Init, CoreProofs!Init, Core!CatalogStates, CoreProofs!CatalogStates, Core!BadgeFor, CoreProofs!BadgeFor,
   Core!Runs, CoreProofs!Runs, Core!Seats, CoreProofs!Seats, curriculum

LEMMA SameCatalogMoves == ASSUME NEW next PROVE Core!MoveCatalog(next) <=> CoreProofs!MoveCatalog(next)
BY Zenon DEF Core!MoveCatalog, CoreProofs!MoveCatalog, Core!MayMoveCatalog, CoreProofs!MayMoveCatalog,
   Core!WriteCatalog, CoreProofs!WriteCatalog, Core!Runs, CoreProofs!Runs, Core!Active, CoreProofs!Active,
   Core!intakeVars, CoreProofs!intakeVars, Core!seatVars, CoreProofs!seatVars, curriculum

LEMMA SameCreateIntake == ASSUME NEW i, NEW seats PROVE Core!CreateIntake(i, seats) <=> CoreProofs!CreateIntake(i, seats)
BY Zenon DEF
   Core!CreateIntake, CoreProofs!CreateIntake, Core!MayCreateIntake, CoreProofs!MayCreateIntake,
   Core!WriteNewIntake, CoreProofs!WriteNewIntake, Core!Free, CoreProofs!Free, Core!Runs, CoreProofs!Runs,
   Core!WriteStatus, CoreProofs!WriteStatus, Core!seatVars, CoreProofs!seatVars, Core!BadgeFor,
   CoreProofs!BadgeFor, curriculum

LEMMA SameUpdateSetup == ASSUME NEW i, NEW seats PROVE Core!UpdateSetup(i, seats) <=> CoreProofs!UpdateSetup(i, seats)
BY Zenon DEF
   Core!UpdateSetup, CoreProofs!UpdateSetup, Core!MayUpdateSetup, CoreProofs!MayUpdateSetup, Core!WriteSetup,
   CoreProofs!WriteSetup, Core!Terminal, CoreProofs!Terminal, Core!Occupied, CoreProofs!Occupied,
   Core!seatVars, CoreProofs!seatVars, Core!Learners, CoreProofs!Learners, Core!Cardinality,
   CoreProofs!Cardinality, Core!IsFiniteSet, CoreProofs!IsFiniteSet, curriculum

LEMMA SameRemovePermanently == ASSUME NEW i PROVE Core!RemovePermanently(i) <=> CoreProofs!RemovePermanently(i)
BY Zenon DEF
   Core!RemovePermanently, CoreProofs!RemovePermanently, Core!MayRemoveIntake, CoreProofs!MayRemoveIntake,
   Core!WriteIntakeRemoved, CoreProofs!WriteIntakeRemoved, Core!WriteStatus, CoreProofs!WriteStatus,
   Core!seatVars, CoreProofs!seatVars, Core!BadgeFor, CoreProofs!BadgeFor, Core!Runs, CoreProofs!Runs,
   curriculum

LEMMA SameTransitionStatus == ASSUME NEW i, NEW next PROVE Core!TransitionStatus(i, next) <=> CoreProofs!TransitionStatus(i, next)
BY Zenon DEF
   Core!TransitionStatus, CoreProofs!TransitionStatus, Core!MayTransition, CoreProofs!MayTransition,
   Core!WriteTransition, CoreProofs!WriteTransition, Core!IntakeMoves, CoreProofs!IntakeMoves,
   Core!ReadyToTransition, CoreProofs!ReadyToTransition, Core!WriteStatus, CoreProofs!WriteStatus,
   Core!StatusAfter, CoreProofs!StatusAfter, Core!EnrolledAfter, CoreProofs!EnrolledAfter, Core!Free,
   CoreProofs!Free, Core!HasVisibleLesson, CoreProofs!HasVisibleLesson, Core!CompletionReady,
   CoreProofs!CompletionReady, Core!BadgeFor, CoreProofs!BadgeFor, Core!Seats, CoreProofs!Seats, Core!Learners,
   CoreProofs!Learners, Core!Certified, CoreProofs!Certified, Core!Runs, CoreProofs!Runs, curriculum

LEMMA SameEditCurriculum == ASSUME NEW i, NEW next PROVE Core!EditCurriculum(i, next) <=> CoreProofs!EditCurriculum(i, next)
BY Zenon DEF
   Core!EditCurriculum, CoreProofs!EditCurriculum, Core!MayEditCurriculum, CoreProofs!MayEditCurriculum,
   Core!WriteCurriculum, CoreProofs!WriteCurriculum, Core!Editable, CoreProofs!Editable, Core!AttachMoves,
   CoreProofs!AttachMoves, Core!RemoveMoves, CoreProofs!RemoveMoves, Core!KeepsVisibleLesson,
   CoreProofs!KeepsVisibleLesson, Core!DeliveryMoves, CoreProofs!DeliveryMoves, Core!Active, CoreProofs!Active,
   Core!seatVars, CoreProofs!seatVars, Core!Terminal, CoreProofs!Terminal, Core!Free, CoreProofs!Free,
   Core!HasVisibleLesson, CoreProofs!HasVisibleLesson, curriculum

LEMMA SameLessonComesDue == ASSUME NEW i, NEW next PROVE Core!LessonComesDue(i, next) <=> CoreProofs!LessonComesDue(i, next)
BY Zenon DEF
   Core!LessonComesDue, CoreProofs!LessonComesDue, Core!DueMoves, CoreProofs!DueMoves, Core!WriteCurriculum,
   CoreProofs!WriteCurriculum, Core!seatVars, CoreProofs!seatVars, curriculum

LEMMA SameSeatStep == ASSUME NEW i, NEW s PROVE Core!SeatStep(i, s) <=> CoreProofs!SeatStep(i, s)
BY Zenon DEF
   Core!SeatStep, CoreProofs!SeatStep, Core!CreatePaid, CoreProofs!CreatePaid, Core!CompletePayment,
   CoreProofs!CompletePayment, Core!EnrollFree, CoreProofs!EnrollFree, Core!EnrollmentStates,
   CoreProofs!EnrollmentStates, Core!UpdateEnrollment, CoreProofs!UpdateEnrollment, Core!CreateIssued,
   CoreProofs!CreateIssued, Core!RevokeIssued, CoreProofs!RevokeIssued, Core!MayCreatePaid,
   CoreProofs!MayCreatePaid, Core!WritePaid, CoreProofs!WritePaid, Core!MayCompletePayment,
   CoreProofs!MayCompletePayment, Core!WriteTopUp, CoreProofs!WriteTopUp, Core!MayEnrollFree,
   CoreProofs!MayEnrollFree, Core!WriteFree, CoreProofs!WriteFree, Core!MayUpdateEnrollment,
   CoreProofs!MayUpdateEnrollment, Core!WriteEnrollment, CoreProofs!WriteEnrollment, Core!MayIssue,
   CoreProofs!MayIssue, Core!WriteIssued, CoreProofs!WriteIssued, Core!MayRevoke, CoreProofs!MayRevoke,
   Core!WriteRevoked, CoreProofs!WriteRevoked, Core!Free, CoreProofs!Free, Core!Occupied, CoreProofs!Occupied,
   Core!intakeVars, CoreProofs!intakeVars, Core!HasVisibleLesson, CoreProofs!HasVisibleLesson,
   Core!AllowedUpdate, CoreProofs!AllowedUpdate, Core!ReadyToUpdate, CoreProofs!ReadyToUpdate, Core!Certified,
   CoreProofs!Certified, Core!Learners, CoreProofs!Learners, Core!EnrollmentMoves, CoreProofs!EnrollmentMoves,
   Core!Active, CoreProofs!Active, Core!Cardinality, CoreProofs!Cardinality, Core!IsFiniteSet,
   CoreProofs!IsFiniteSet, curriculum

LEMMA SameIntakeStep == ASSUME NEW i PROVE Core!IntakeStep(i) <=> CoreProofs!IntakeStep(i)
BY SameCreateIntake, SameUpdateSetup, SameRemovePermanently, SameTransitionStatus, SameEditCurriculum,
   SameLessonComesDue, SameSets DEF Core!IntakeStep, CoreProofs!IntakeStep

LEMMA SameNext == Core!Next <=> CoreProofs!Next
BY SameSets, SameCatalogMoves, SameIntakeStep, SameSeatStep DEF Core!Next, CoreProofs!Next

LEMMA SameSpec == Core!Spec <=> CoreProofs!Spec
<1>1. [Core!Next]_(Core!vars) <=> [CoreProofs!Next]_(CoreProofs!vars)
  BY SameNext DEF Core!vars, CoreProofs!vars, curriculum
<1> QED
  BY <1>1, SameInit, PTL DEF Core!Spec, CoreProofs!Spec

-----------------------------------------------------------------------------
(* The inductive invariant: an attach holds an intake that may be edited, and *)
(* only an intake that was active has a scheduled lesson.                      *)

RowsTyped ==
    /\ library \in [Sessions -> LibraryStates]
    /\ recording \in [Sessions -> BOOLEAN]
    /\ row \in [Rows -> RowStates]
    /\ delivery \in [Rows -> DeliveryStates]
    /\ due \in [Rows -> BOOLEAN]
    /\ released \in [Rows -> BOOLEAN]
    /\ done \in [Rows -> SUBSET Students]
    /\ attaching \in [intake : Intakes, session : Sessions, index : Nat] \cup {Nothing}
    /\ redrafting \in Sessions \cup {Nothing}

AttachHeld ==
    attaching # Nothing =>
        /\ Core!Editable(attaching.intake)
        /\ row[<<attaching.intake, attaching.session>>] # "LIVE"

ScheduledWasActive ==
    \A r \in Rows : /\ row[r] = "NONE" => delivery[r] = "UNRELEASED"
                    /\ delivery[r] = "SCHEDULED" => status[r[1]] \notin {"NONE", "DRAFT"}

DInv ==
    /\ RowsTyped
    /\ CoreProofs!IInv
    /\ AttachHeld
    /\ ScheduledWasActive

LEMMA DeliveryInit == Init => DInv
<1> SUFFICES ASSUME Init PROVE DInv
  OBVIOUS
<1>1. CoreProofs!IInv
  BY SameInit, SameAssumptions, CoreProofs!InvInit DEF Init
<1>2. RowsTyped
  BY LibraryAssumption DEF Init, RowsTyped, LibraryStates, RowStates, DeliveryStates
<1>3. ScheduledWasActive
  BY DEF Init, ScheduledWasActive
<1> QED
  BY <1>1, <1>2, <1>3 DEF Init, AttachHeld, DInv

-----------------------------------------------------------------------------
(* A curriculum as the core sees it, from its live and its visible lessons.   *)

Seen(i) == {l \in Live(i) : Visible(i, l)}

SummaryOf(L, V) ==
    IF L = {} THEN "EMPTY" ELSE IF V = L THEN "VISIBLE" ELSE IF V # {} THEN "PARTIAL" ELSE "HIDDEN"

LEMMA SummaryIs ==
    ASSUME NEW i
    PROVE  /\ Summary(i) = SummaryOf(Live(i), Seen(i)) /\ Summary(i)' = SummaryOf(Live(i)', Seen(i)')
           /\ Summary(i) \in Core!CurriculumStates /\ Summary(i)' \in Core!CurriculumStates
BY DEF Summary, SummaryOf, Seen, Core!CurriculumStates

LEMMA AttachSummary ==
    ASSUME NEW L, NEW V \in SUBSET L, NEW l, l \notin L
    PROVE  LET a == SummaryOf(L, V)
               b == SummaryOf(L \cup {l}, V)
           IN  a = b \/ <<a, b>> \in Core!AttachMoves
BY DEF SummaryOf, Core!AttachMoves

LEMMA RemoveSummary ==
    ASSUME NEW L, NEW V \in SUBSET L, NEW l \in L
    PROVE  LET a == SummaryOf(L, V)
               b == SummaryOf(L \ {l}, V \ {l})
           IN  a = b \/ <<a, b>> \in Core!RemoveMoves
BY DEF SummaryOf, Core!RemoveMoves

LEMMA DeliverySummary ==
    ASSUME NEW L, NEW V \in SUBSET L, NEW W \in SUBSET L, NEW l \in L, W \ {l} = V \ {l}
    PROVE  LET a == SummaryOf(L, V)
               b == SummaryOf(L, W)
           IN  /\ a = b \/ <<a, b>> \in Core!DeliveryMoves
               /\ V \subseteq W => a = b \/ <<a, b>> \in Core!DueMoves
BY DEF SummaryOf, Core!DeliveryMoves, Core!DueMoves

\* Only rows of i change, and its summary moves as the core allows.
LEMMA CurriculumMoves ==
    ASSUME NEW i \in Intakes, UNCHANGED enrollVars,
           \A r \in Rows : r[1] # i => row'[r] = row[r] /\ delivery'[r] = delivery[r] /\ due'[r] = due[r],
           \/ Summary(i)' = Summary(i)
           \/ Core!MayEditCurriculum(i, Summary(i)')
           \/ status[i] \notin {"NONE", "DRAFT"} /\ <<Summary(i), Summary(i)'>> \in Core!DueMoves
    PROVE  [Core!Next]_(Core!vars)
<1>1. PICK next \in Core!CurriculumStates : next = Summary(i)'
  BY SummaryIs
<1>2. ASSUME NEW j \in Intakes, j # i PROVE Summary(j)' = Summary(j)
  <2>1. \A l \in Sessions : row'[<<j, l>>] = row[<<j, l>>] /\ delivery'[<<j, l>>] = delivery[<<j, l>>]
                            /\ due'[<<j, l>>] = due[<<j, l>>]
    BY <1>2 DEF Rows
  <2>2. Live(j)' = Live(j)
    BY <2>1 DEF Live
  <2>3. \A l \in Sessions : Visible(j, l)' <=> Visible(j, l)
    BY <2>1 DEF Visible
  <2>4. (\A l \in Live(j) : Visible(j, l))' <=> \A l \in Live(j) : Visible(j, l)
    BY <2>2, <2>3 DEF Live
  <2>5. (\E l \in Live(j) : Visible(j, l))' <=> \E l \in Live(j) : Visible(j, l)
    BY <2>2, <2>3 DEF Live
  <2> QED
    BY <2>2, <2>4, <2>5 DEF Summary
<1>3. curriculum' = [curriculum EXCEPT ![i] = next] /\ curriculum[i] = Summary(i)
  BY <1>1, <1>2 DEF curriculum
<1>4. CASE Summary(i)' = Summary(i)
  <2>1. curriculum' = curriculum
    BY <1>2, <1>4 DEF curriculum
  <2> QED
    BY <2>1 DEF curriculum, enrollVars, Core!vars
<1>5. CASE Core!MayEditCurriculum(i, Summary(i)')
  <2>1. Core!EditCurriculum(i, next)
    BY <1>1, <1>3, <1>5 DEF Core!EditCurriculum, Core!WriteCurriculum, Core!seatVars, enrollVars, curriculum
  <2> QED
    BY <2>1 DEF Core!Next, Core!IntakeStep
<1>6. CASE status[i] \notin {"NONE", "DRAFT"} /\ <<Summary(i), Summary(i)'>> \in Core!DueMoves
  <2>1. Core!LessonComesDue(i, next)
    BY <1>1, <1>3, <1>6 DEF Core!LessonComesDue, Core!WriteCurriculum, Core!seatVars, enrollVars, curriculum
  <2> QED
    BY <2>1 DEF Core!Next, Core!IntakeStep
<1> QED
  BY <1>4, <1>5, <1>6

-----------------------------------------------------------------------------
(* Every step fits: it is a step of the core or changes nothing there, and it *)
(* leaves the rows as the invariant has them.                                  *)

StepFits == [Core!Next]_(Core!vars) /\ RowsTyped' /\ AttachHeld' /\ ScheduledWasActive'

LEMMA SameSummaries ==
    ASSUME UNCHANGED <<enrollVars, row, delivery, due>> PROVE UNCHANGED Core!vars
<1>1. \A i \in Intakes : Summary(i)' = Summary(i)
  BY DEF Summary, Live, Visible
<1>2. curriculum' = curriculum
  BY <1>1 DEF curriculum
<1> QED
  BY <1>2 DEF curriculum, enrollVars, Core!vars

LEMMA SameHold ==
    ASSUME AttachHeld, UNCHANGED <<enrollVars, row, attaching>> PROVE AttachHeld'
BY DEF AttachHeld, Core!Editable, enrollVars

LEMMA LibraryFits ==
    ASSUME DInv, UNCHANGED <<enrollVars, row, delivery, due, released, done, attaching>>,
           library' \in [Sessions -> LibraryStates], recording' \in [Sessions -> BOOLEAN],
           redrafting' \in Sessions \cup {Nothing}
    PROVE  StepFits
<1>1. RowsTyped'
  BY DEF DInv, RowsTyped
<1>2. ScheduledWasActive'
  BY DEF DInv, ScheduledWasActive, enrollVars
<1> QED
  BY <1>1, <1>2, SameSummaries, SameHold DEF StepFits, DInv

LEMMA WrittenSession ==
    ASSUME DInv, NEW l \in Sessions, NEW st \in LibraryStates, NEW has \in BOOLEAN, WriteSession(l, st, has)
    PROVE  StepFits
BY LibraryFits DEF WriteSession, rowVars, DInv, RowsTyped

LEMMA LibraryStepFits == ASSUME DInv, NEW l \in Sessions, LibraryStep(l) PROVE StepFits
<1>1. /\ \A m \in Sessions : library[m] \in LibraryStates /\ recording[m] \in BOOLEAN
      /\ redrafting \in Sessions \cup {Nothing}
  BY DEF DInv, RowsTyped
<1>2. {"DRAFT", "READY", "ARCHIVED", "GONE"} \subseteq LibraryStates
  BY DEF LibraryStates
<1>3. ASSUME NEW st \in {"DRAFT", "READY", Same}, NEW has \in BOOLEAN, CreateSession(l, st, has) PROVE StepFits
  <2>1. st \in LibraryStates /\ WriteSession(l, st, has)
    BY <1>2, <1>3 DEF CreateSession
  <2> QED
    BY <2>1, WrittenSession
<1>4. ASSUME NEW st \in {"DRAFT", "READY", Same}, NEW has \in BOOLEAN, UpdateSession(l, st, has) PROVE StepFits
  <2>1. PICK next \in LibraryStates : next = IF st = Same THEN library[l] ELSE st
    BY <1>1, <1>2
  <2>2. WriteSession(l, next, has)
    BY <1>4, <2>1 DEF UpdateSession
  <2> QED
    BY <2>2, WrittenSession
<1>5. ASSUME NEW copy \in Sessions, Duplicate(l, copy) PROVE StepFits
  BY <1>1, <1>2, <1>5, WrittenSession DEF Duplicate
<1>6. CASE ArchiveSession(l)
  BY <1>1, <1>2, <1>6, WrittenSession DEF ArchiveSession
<1>7. CASE RestoreSession(l)
  <2>1. Restored(l) \in LibraryStates
    BY <1>2 DEF Restored
  <2> QED
    BY <1>1, <1>7, <2>1, WrittenSession DEF RestoreSession
<1>8. CASE RemoveSession(l)
  <2>1. FALSE \in BOOLEAN
    OBVIOUS
  <2> QED
    BY <1>2, <1>8, <2>1, WrittenSession DEF RemoveSession
<1>9. CASE BeginRedraft(l)
  <2>1. UNCHANGED <<enrollVars, row, delivery, due, released, done, attaching, library, recording>>
        /\ redrafting' = l
    BY <1>9 DEF BeginRedraft, rowVars
  <2> QED
    BY <2>1, LibraryFits DEF DInv, RowsTyped
<1>10. ASSUME NEW has \in BOOLEAN, redrafting = l, CommitRedraft(has) PROVE StepFits
  <2>1. /\ UNCHANGED <<enrollVars, row, delivery, due, released, done, attaching>> /\ redrafting' = Nothing
        /\ library' = [library EXCEPT ![l] = "DRAFT"] /\ recording' = [recording EXCEPT ![l] = has]
    BY <1>10 DEF CommitRedraft, rowVars
  <2>2. library' \in [Sessions -> LibraryStates] /\ recording' \in [Sessions -> BOOLEAN]
    BY <1>2, <2>1 DEF DInv, RowsTyped
  <2> QED
    BY <2>1, <2>2, LibraryFits
<1> QED
  BY <1>3, <1>4, <1>5, <1>6, <1>7, <1>8, <1>9, <1>10 DEF LibraryStep

LEMMA AbortsFit == ASSUME DInv, AbortAttach \/ AbortRedraft PROVE StepFits
<1>1. CASE AbortRedraft
  BY <1>1, LibraryFits DEF AbortRedraft, rowVars, DInv, RowsTyped
<1>2. CASE AbortAttach
  <2>1. /\ UNCHANGED <<enrollVars, row, delivery, due, released, done, library, recording, redrafting>>
        /\ attaching' = Nothing
    BY <1>2 DEF AbortAttach, rowVars, libraryVars
  <2>2. RowsTyped' /\ AttachHeld' /\ ScheduledWasActive'
    BY <2>1 DEF DInv, RowsTyped, AttachHeld, ScheduledWasActive, enrollVars
  <2> QED
    BY <2>1, <2>2, SameSummaries DEF StepFits
<1> QED
  BY <1>1, <1>2

LEMMA BeginAttachFits ==
    ASSUME DInv, NEW i \in Intakes, NEW l \in Sessions, NEW index \in Nat, BeginAttach(i, l, index) PROVE StepFits
<1>1. UNCHANGED <<enrollVars, row, delivery, due, released, done, library, recording, redrafting>>
  BY DEF BeginAttach, rowVars, libraryVars
<1>2. attaching' = [intake |-> i, session |-> l, index |-> index]
  BY DEF BeginAttach
<1>3. RowsTyped'
  BY <1>1, <1>2 DEF DInv, RowsTyped
<1>4. AttachHeld'
  BY <1>1, <1>2 DEF BeginAttach, Editing, AttachHeld, Core!Editable, enrollVars
<1>5. ScheduledWasActive'
  BY <1>1 DEF DInv, ScheduledWasActive, enrollVars
<1> QED
  BY <1>1, <1>3, <1>4, <1>5, SameSummaries DEF StepFits

LEMMA CommitAttachFits == ASSUME DInv, CommitAttach PROVE StepFits
<1>1. PICK i \in Intakes, l \in Sessions : i = attaching.intake /\ l = attaching.session
  BY DEF DInv, RowsTyped, CommitAttach
<1> DEFINE at == <<i, l>>
<1>2. at \in Rows /\ row[at] # "LIVE" /\ Core!Editable(i)
  BY <1>1 DEF DInv, AttachHeld, CommitAttach, Rows
<1>3. PICK d \in {"UNRELEASED", "WITHDRAWN"} :
         /\ delivery' = [delivery EXCEPT ![at] = d] /\ due' = [due EXCEPT ![at] = FALSE]
         /\ row' = [row EXCEPT ![at] = "LIVE"] /\ attaching' = Nothing
         /\ UNCHANGED <<enrollVars, library, recording, redrafting, released, done>>
  BY <1>1 DEF CommitAttach, libraryVars
<1>4. RowsTyped'
  BY <1>2, <1>3 DEF DInv, RowsTyped, RowStates, DeliveryStates
<1>5. AttachHeld'
  BY <1>3 DEF AttachHeld
<1>6. ScheduledWasActive'
  BY <1>2, <1>3 DEF DInv, RowsTyped, ScheduledWasActive, enrollVars
<1>7. Live(i)' = Live(i) \cup {l} /\ l \notin Live(i) /\ Seen(i)' = Seen(i) /\ Seen(i) \in SUBSET Live(i)
  <2>1. /\ row'[at] = "LIVE" /\ delivery'[at] = d
        /\ \A m \in Sessions : m # l => /\ row'[<<i, m>>] = row[<<i, m>>]
                                        /\ delivery'[<<i, m>>] = delivery[<<i, m>>]
                                        /\ due'[<<i, m>>] = due[<<i, m>>]
    BY <1>2, <1>3 DEF DInv, RowsTyped, Rows
  <2>2. Live(i)' = Live(i) \cup {l} /\ l \notin Live(i)
    BY <1>2, <2>1 DEF Live
  <2>3. ~Visible(i, l)' /\ \A m \in Sessions : m # l => (Visible(i, m)' <=> Visible(i, m))
    BY <2>1 DEF Visible
  <2> QED
    BY <2>2, <2>3 DEF Seen, Live
<1>8. Summary(i)' = Summary(i) \/ Core!MayEditCurriculum(i, Summary(i)')
  <2>1. Summary(i)' = Summary(i) \/ <<Summary(i), Summary(i)'>> \in Core!AttachMoves
    BY <1>7, SummaryIs, AttachSummary
  <2> QED
    BY <1>2, <2>1 DEF Core!MayEditCurriculum
<1>9. \A r \in Rows : r[1] # i => row'[r] = row[r] /\ delivery'[r] = delivery[r] /\ due'[r] = due[r]
  <2>1. \A r \in Rows : r[1] # i => r # at
    OBVIOUS
  <2> HIDE DEF at
  <2> QED
    BY <1>3, <2>1 DEF DInv, RowsTyped
<1> QED
  BY <1>3, <1>4, <1>5, <1>6, <1>8, <1>9, CurriculumMoves DEF StepFits

LEMMA ReorderFits ==
    ASSUME DInv, NEW i \in Intakes, NEW p, NEW ack, Reorder(i, p, ack) PROVE StepFits
<1>1. UNCHANGED <<enrollVars, row, delivery, due, released, done, attaching, library, recording, redrafting>>
  BY DEF Reorder, libraryVars
<1> QED
  BY <1>1, LibraryFits DEF DInv, RowsTyped

LEMMA ProgressFits ==
    ASSUME DInv, NEW i \in Intakes, NEW l \in Sessions, NEW s \in Students, Complete(i, l, s) \/ Uncomplete(i, l, s)
    PROVE  StepFits
<1>1. UNCHANGED <<enrollVars, row, delivery, due, released, attaching, library, recording, redrafting>>
  BY DEF Complete, Uncomplete, libraryVars
<1>2. done' \in [Rows -> SUBSET Students]
  BY DEF DInv, RowsTyped, Complete, Uncomplete, Rows
<1>3. RowsTyped'
  BY <1>1, <1>2 DEF DInv, RowsTyped
<1>4. ScheduledWasActive'
  BY <1>1 DEF DInv, ScheduledWasActive, enrollVars
<1> QED
  BY <1>1, <1>3, <1>4, SameSummaries, SameHold DEF StepFits, DInv

\* Rows of i only are rewritten, one of them at <<i, l>>.
LEMMA RowsAt ==
    ASSUME DInv, NEW i \in Intakes, NEW l \in Sessions
    PROVE  /\ <<i, l>> \in Rows /\ <<i, l>>[1] = i
           /\ \A r \in Rows : r[1] # i => r # <<i, l>>
           /\ \A m \in Sessions : m # l => <<i, m>> \in Rows /\ <<i, m>> # <<i, l>>
BY DEF Rows

LEMMA RemoveFits ==
    ASSUME DInv, NEW i \in Intakes, NEW l \in Sessions, Remove(i, l) PROVE StepFits
<1> DEFINE at == <<i, l>>
<1>1. PICK kept \in BOOLEAN :
         /\ row' = [row EXCEPT ![at] = IF kept THEN "RETIRED" ELSE "NONE"]
         /\ delivery' = [delivery EXCEPT ![at] = IF kept THEN @ ELSE "UNRELEASED"]
         /\ due' = [due EXCEPT ![at] = kept /\ @]
         /\ released' = [released EXCEPT ![at] = kept /\ @]
         /\ done' = [done EXCEPT ![at] = IF kept THEN @ ELSE {}]
  <2> DEFINE kept == HasHistory(i, l)
  <2>1. kept \in BOOLEAN
    BY DEF HasHistory, Visible, DInv, RowsTyped, Rows
  <2> QED
    BY <2>1 DEF Remove
<1>2. /\ Editing(i) /\ l \in Live(i) /\ KeepsVisibleLesson(i, l, "GONE")
      /\ UNCHANGED <<enrollVars, library, recording, redrafting, attaching>>
  BY DEF Remove, libraryVars
<1>3. at \in Rows /\ \A r \in Rows : r[1] # i => r # at
  BY RowsAt
<1>4. RowsTyped'
  <2>1. row' \in [Rows -> RowStates] /\ delivery' \in [Rows -> DeliveryStates] /\ done' \in [Rows -> SUBSET Students]
    BY <1>1, <1>3 DEF DInv, RowsTyped, RowStates, DeliveryStates
  <2>2. due' \in [Rows -> BOOLEAN] /\ released' \in [Rows -> BOOLEAN]
    BY <1>1, <1>3 DEF DInv, RowsTyped
  <2> QED
    BY <1>2, <2>1, <2>2 DEF DInv, RowsTyped
<1>5. AttachHeld'
  BY <1>2 DEF Editing, AttachHeld
<1>6. ScheduledWasActive'
  <2>1. \A r \in Rows : r # at => row'[r] = row[r] /\ delivery'[r] = delivery[r]
    BY <1>1 DEF DInv, RowsTyped
  <2>2. row'[at] = (IF kept THEN "RETIRED" ELSE "NONE") /\ delivery'[at] = (IF kept THEN delivery[at] ELSE "UNRELEASED")
    BY <1>1, <1>3 DEF DInv, RowsTyped
  <2> HIDE DEF at
  <2> QED
    BY <1>2, <1>3, <2>1, <2>2 DEF DInv, ScheduledWasActive, enrollVars
<1>7. Live(i)' = Live(i) \ {l} /\ Seen(i)' = Seen(i) \ {l} /\ Seen(i) \in SUBSET Live(i)
  <2>1. /\ row'[at] # "LIVE"
        /\ \A m \in Sessions : m # l => /\ row'[<<i, m>>] = row[<<i, m>>]
                                        /\ delivery'[<<i, m>>] = delivery[<<i, m>>]
                                        /\ due'[<<i, m>>] = due[<<i, m>>]
    BY <1>1, RowsAt DEF DInv, RowsTyped
  <2>2. Live(i)' = Live(i) \ {l}
    BY <2>1 DEF Live
  <2>3. \A m \in Sessions : m # l => (Visible(i, m)' <=> Visible(i, m))
    BY <2>1 DEF Visible
  <2> QED
    BY <2>2, <2>3 DEF Seen, Live
<1>8. Summary(i)' = Summary(i) \/ Core!MayEditCurriculum(i, Summary(i)')
  <2>1. Summary(i)' = Summary(i) \/ <<Summary(i), Summary(i)'>> \in Core!RemoveMoves
    BY <1>2, <1>7, SummaryIs, RemoveSummary
  <2>2. Core!KeepsVisibleLesson(i, Summary(i)')
    <3> SUFFICES ASSUME status[i] = "OPEN_ACTIVE", Core!Free(i), Summary(i) \in {"PARTIAL", "VISIBLE"}
                 PROVE  Summary(i)' \in {"PARTIAL", "VISIBLE"}
      BY DEF Core!KeepsVisibleLesson, Core!HasVisibleLesson
    <3>1. PICK m \in Live(i) : Visible(i, m)
      BY DEF Summary
    <3>2. Seen(i)' # {}
      BY <1>2, <1>7, <3>1 DEF KeepsVisibleLesson, Seen
    <3>3. Live(i)' # {}
      BY <3>2 DEF Seen
    <3> QED
      BY <3>2, <3>3, SummaryIs DEF SummaryOf
  <2> QED
    BY <1>2, <2>1, <2>2 DEF Core!MayEditCurriculum, Editing
<1>9. \A r \in Rows : r[1] # i => row'[r] = row[r] /\ delivery'[r] = delivery[r] /\ due'[r] = due[r]
  <2> HIDE DEF at
  <2> QED
    BY <1>1, <1>3 DEF DInv, RowsTyped
<1> QED
  BY <1>2, <1>4, <1>5, <1>6, <1>8, <1>9, CurriculumMoves DEF StepFits

\* Only the delivery of one live row of i changes.
LEMMA DeliveryMoves ==
    ASSUME DInv, NEW i \in Intakes, NEW l \in Live(i), UNCHANGED row,
           \A m \in Sessions : m # l => delivery'[<<i, m>>] = delivery[<<i, m>>] /\ due'[<<i, m>>] = due[<<i, m>>]
    PROVE  /\ Live(i)' = Live(i) /\ Seen(i)' \ {l} = Seen(i) \ {l}
           /\ Seen(i) \in SUBSET Live(i) /\ Seen(i)' \in SUBSET Live(i)
<1>1. Live(i)' = Live(i)
  BY DEF Live
<1>2. \A m \in Sessions : m # l => (Visible(i, m)' <=> Visible(i, m))
  BY DEF Visible
<1> QED
  BY <1>1, <1>2 DEF Seen, Live

LEMMA UpdateDeliveryFits ==
    ASSUME DInv, NEW i \in Intakes, NEW l \in Sessions, NEW next \in DeliveryStates, NEW ack,
           UpdateDelivery(i, l, next, ack)
    PROVE  StepFits
<1> DEFINE at == <<i, l>>
<1>1. /\ delivery' = [delivery EXCEPT ![at] = next] /\ due' = [due EXCEPT ![at] = FALSE]
      /\ released' = [released EXCEPT ![at] = @ \/ next = "RELEASED"]
      /\ UNCHANGED <<enrollVars, library, recording, redrafting, row, done, attaching>>
  BY DEF UpdateDelivery, libraryVars
<1>2. Editing(i) /\ status[i] \in Core!Active /\ l \in Live(i) /\ KeepsVisibleLesson(i, l, next)
  BY DEF UpdateDelivery
<1>3. at \in Rows /\ at[1] = i /\ \A r \in Rows : r[1] # i => r # at
  BY RowsAt
<1>4. RowsTyped'
  <2>1. delivery' \in [Rows -> DeliveryStates] /\ due' \in [Rows -> BOOLEAN] /\ released' \in [Rows -> BOOLEAN]
    BY <1>1, <1>3 DEF DInv, RowsTyped
  <2> QED
    BY <1>1, <2>1 DEF DInv, RowsTyped
<1>5. AttachHeld'
  BY <1>1, <1>2 DEF Editing, AttachHeld
<1>6. ScheduledWasActive'
  <2>1. \A r \in Rows : r # at => delivery'[r] = delivery[r]
    BY <1>1 DEF DInv, RowsTyped
  <2>2. row[at] = "LIVE" /\ status[i] \notin {"NONE", "DRAFT"}
    BY <1>2 DEF Live, Core!Active
  <2> HIDE DEF at
  <2> QED
    BY <1>1, <1>3, <2>1, <2>2 DEF DInv, ScheduledWasActive, enrollVars
<1>7. \A m \in Sessions : m # l => delivery'[<<i, m>>] = delivery[<<i, m>>] /\ due'[<<i, m>>] = due[<<i, m>>]
  BY <1>1, RowsAt DEF DInv, RowsTyped
<1>8. Visible(i, l)' <=> next = "RELEASED"
  BY <1>1, <1>3 DEF Visible, DInv, RowsTyped
<1>9. Summary(i)' = Summary(i) \/ Core!MayEditCurriculum(i, Summary(i)')
  <2>1. Summary(i)' = Summary(i) \/ <<Summary(i), Summary(i)'>> \in Core!DeliveryMoves
    BY <1>1, <1>2, <1>7, DeliveryMoves, DeliverySummary, SummaryIs
  <2>2. Core!KeepsVisibleLesson(i, Summary(i)')
    <3> SUFFICES ASSUME status[i] = "OPEN_ACTIVE", Core!Free(i), Summary(i) \in {"PARTIAL", "VISIBLE"}
                 PROVE  Summary(i)' \in {"PARTIAL", "VISIBLE"}
      BY DEF Core!KeepsVisibleLesson, Core!HasVisibleLesson
    <3>1. PICK m \in Live(i) : Visible(i, m)
      BY DEF Summary
    <3>2. PICK n \in Live(i) : (n # l /\ Visible(i, n)) \/ (n = l /\ next = "RELEASED")
      <4>1. CASE m # l \/ next = "RELEASED"
        BY <1>2, <3>1, <4>1
      <4>2. CASE m = l /\ next # "RELEASED"
        <5>1. \E n \in Live(i) \ {l} : Visible(i, n)
          BY <1>2, <3>1, <4>2 DEF KeepsVisibleLesson
        <5> QED
          BY <5>1
      <4> QED
        BY <4>1, <4>2
    <3>3. n \in Seen(i)'
      BY <1>1, <1>2, <1>7, <1>8, <3>2, DeliveryMoves DEF Seen
    <3>4. Live(i)' # {}
      BY <3>3 DEF Seen
    <3> QED
      BY <3>3, <3>4, SummaryIs DEF SummaryOf
  <2> QED
    BY <1>2, <2>1, <2>2 DEF Core!MayEditCurriculum, Editing
<1>10. \A r \in Rows : r[1] # i => row'[r] = row[r] /\ delivery'[r] = delivery[r] /\ due'[r] = due[r]
  <2> HIDE DEF at
  <2> QED
    BY <1>1, <1>3 DEF DInv, RowsTyped
<1> QED
  BY <1>1, <1>4, <1>5, <1>6, <1>9, <1>10, CurriculumMoves DEF StepFits

LEMMA ComesDueFits ==
    ASSUME DInv, NEW i \in Intakes, NEW l \in Sessions, ComesDue(i, l) PROVE StepFits
<1> DEFINE at == <<i, l>>
<1>1. /\ due' = [due EXCEPT ![at] = TRUE] /\ delivery[at] = "SCHEDULED"
      /\ UNCHANGED <<enrollVars, library, recording, redrafting, row, delivery, released, done, attaching>>
  BY DEF ComesDue, libraryVars
<1>2. at \in Rows /\ at[1] = i /\ \A r \in Rows : r[1] # i => r # at
  BY RowsAt
<1>3. RowsTyped' /\ ScheduledWasActive'
  BY <1>1, <1>2 DEF DInv, RowsTyped, ScheduledWasActive, enrollVars
<1>4. \A m \in Sessions : m # l => delivery'[<<i, m>>] = delivery[<<i, m>>] /\ due'[<<i, m>>] = due[<<i, m>>]
  BY <1>1, RowsAt DEF DInv, RowsTyped
<1>5. status[i] \notin {"NONE", "DRAFT"}
  BY <1>1, <1>2 DEF DInv, ScheduledWasActive
<1>6. Summary(i)' = Summary(i) \/ <<Summary(i), Summary(i)'>> \in Core!DueMoves
  <2>1. CASE l \in Live(i)
    <3>1. Seen(i) \subseteq Seen(i)'
      <4>1. Visible(i, l)'
        BY <1>1, <1>2 DEF Visible, DInv, RowsTyped
      <4> QED
        <5>1. Seen(i)' \ {l} = Seen(i) \ {l} /\ Live(i)' = Live(i)
          BY <1>1, <1>4, <2>1, DeliveryMoves
        <5>2. l \in Seen(i)'
          BY <2>1, <4>1, <5>1 DEF Seen
        <5> QED
          BY <5>1, <5>2
    <3> QED
      BY <1>1, <1>4, <2>1, <3>1, DeliveryMoves, DeliverySummary, SummaryIs
  <2>2. CASE l \notin Live(i)
    <3>1. Live(i)' = Live(i)
      BY <1>1 DEF Live
    <3>2. \A m \in Live(i) : Visible(i, m)' <=> Visible(i, m)
      BY <1>4, <2>2 DEF Visible, Live
    <3>3. Seen(i)' = Seen(i)
      BY <3>1, <3>2 DEF Seen
    <3> QED
      BY <3>1, <3>3, SummaryIs
  <2> QED
    BY <2>1, <2>2
<1>7. \A r \in Rows : r[1] # i => row'[r] = row[r] /\ delivery'[r] = delivery[r] /\ due'[r] = due[r]
  <2> HIDE DEF at
  <2> QED
    BY <1>1, <1>2 DEF DInv, RowsTyped
<1> QED
  BY <1>1, <1>3, <1>5, <1>6, <1>7, CurriculumMoves, SameHold DEF StepFits, DInv

-----------------------------------------------------------------------------
(* Steps of the core leave the rows alone.                                   *)

LEMMA StatusOfSeats == ASSUME NEW i, NEW s, Core!SeatStep(i, s) PROVE status' = status
BY DEF Core!SeatStep, Core!CreatePaid, Core!WritePaid, Core!CompletePayment, Core!WriteTopUp, Core!EnrollFree,
   Core!WriteFree, Core!UpdateEnrollment, Core!WriteEnrollment, Core!CreateIssued, Core!WriteIssued,
   Core!RevokeIssued, Core!WriteRevoked, Core!intakeVars

LEMMA CoreStepFits ==
    ASSUME DInv, Core!Next, attaching = Nothing,
           UNCHANGED <<library, recording, redrafting, row, delivery, due, released, attaching>>,
           done' \in [Rows -> SUBSET Students], ScheduledWasActive'
    PROVE  StepFits
<1>1. RowsTyped'
  BY DEF DInv, RowsTyped
<1>2. AttachHeld'
  BY DEF AttachHeld
<1> QED
  BY <1>1, <1>2 DEF StepFits

LEMMA SeatStepFits == ASSUME DInv, NEW i \in Intakes, NEW s \in Students, SeatStep(i, s) PROVE StepFits
<1>1. /\ Core!SeatStep(i, s) /\ attaching = Nothing /\ done' = Backfilled(i, s)
      /\ UNCHANGED <<library, recording, redrafting, row, delivery, due, released, attaching>>
  BY DEF SeatStep, libraryVars
<1>2. ScheduledWasActive'
  BY <1>1, StatusOfSeats DEF DInv, ScheduledWasActive
<1>3. done' \in [Rows -> SUBSET Students]
  BY <1>1 DEF Backfilled, DInv, RowsTyped
<1> QED
  BY <1>1, <1>2, <1>3, CoreStepFits DEF Core!Next

\* Only i is created or deleted by a step of its own.
LEMMA StatusOfIntakes ==
    ASSUME DInv, NEW i \in Intakes, Core!IntakeStep(i), NEW j \in Intakes, status'[j] \in {"NONE", "DRAFT"}
    PROVE  status[j] \in {"NONE", "DRAFT"} \/ (j = i /\ status'[i] = "NONE")
<1>1. CoreProofs!TypeOK /\ CoreProofs!IntakeStep(i)
  BY SameIntakeStep DEF DInv, CoreProofs!IInv
<1>2. ASSUME NEW seats, CoreProofs!CreateIntake(i, seats) \/ CoreProofs!UpdateSetup(i, seats)
      PROVE  status[j] \in {"NONE", "DRAFT"}
  BY <1>1, <1>2 DEF CoreProofs!TypeOK, CoreProofs!CreateIntake, CoreProofs!MayCreateIntake, CoreProofs!WriteNewIntake,
     CoreProofs!WriteStatus, CoreProofs!UpdateSetup, CoreProofs!WriteSetup
<1>3. ASSUME NEW next \in CoreProofs!IntakeStates, CoreProofs!TransitionStatus(i, next)
      PROVE  status[j] \in {"NONE", "DRAFT"}
  <2>1. next \notin {"NONE", "DRAFT"}
    BY <1>1, <1>3, CoreProofs!TransitionMoves, SameAssumptions
  <2>2. status'[j] = next \/ status'[j] = "CLOSED_ACTIVE" \/ status'[j] = status[j]
    BY <1>1, <1>3, CoreProofs!TransitionWrites, SameAssumptions
  <2> QED
    BY <2>1, <2>2
<1>4. ASSUME CoreProofs!RemovePermanently(i)
      PROVE  status[j] \in {"NONE", "DRAFT"} \/ (j = i /\ status'[i] = "NONE")
  BY <1>1, <1>4 DEF CoreProofs!TypeOK, CoreProofs!RemovePermanently, CoreProofs!WriteIntakeRemoved, CoreProofs!WriteStatus
<1>5. ASSUME NEW next, CoreProofs!EditCurriculum(i, next) \/ CoreProofs!LessonComesDue(i, next)
      PROVE  status[j] \in {"NONE", "DRAFT"}
  BY <1>5 DEF CoreProofs!EditCurriculum, CoreProofs!LessonComesDue, CoreProofs!WriteCurriculum
<1> QED
  BY <1>1, <1>2, <1>3, <1>4, <1>5 DEF CoreProofs!IntakeStep

LEMMA IntakeStepFits == ASSUME DInv, NEW i \in Intakes, IntakeStep(i) PROVE StepFits
<1>1. /\ Core!IntakeStep(i) /\ attaching = Nothing
      /\ status'[i] = "NONE" => \A l \in Sessions : row[<<i, l>>] = "NONE"
      /\ UNCHANGED <<library, recording, redrafting, row, delivery, due, released, done, attaching>>
  BY DEF IntakeStep, libraryVars, rowVars
<1>2. ScheduledWasActive'
  <2>1. ASSUME NEW r \in Rows, delivery[r] = "SCHEDULED", status'[r[1]] \in {"NONE", "DRAFT"} PROVE FALSE
    <3>1. PICK j \in Intakes, l \in Sessions : r = <<j, l>> /\ r[1] = j
      BY DEF Rows
    <3>2. row[r] # "NONE" /\ status[j] \notin {"NONE", "DRAFT"}
      BY <2>1, <3>1 DEF DInv, ScheduledWasActive
    <3> QED
      BY <1>1, <2>1, <3>1, <3>2, StatusOfIntakes
  <2> QED
    BY <1>1, <2>1 DEF DInv, ScheduledWasActive
<1>3. done' \in [Rows -> SUBSET Students]
  BY <1>1 DEF DInv, RowsTyped
<1> QED
  BY <1>1, <1>2, <1>3, CoreStepFits DEF Core!Next

LEMMA CatalogStepFits == ASSUME DInv, CatalogStep PROVE StepFits
<1>1. PICK next \in [Courses -> Core!CatalogStates] : Core!MoveCatalog(next)
  BY DEF CatalogStep
<1>2. /\ attaching = Nothing
      /\ UNCHANGED <<library, recording, redrafting, row, delivery, due, released, done, attaching>>
  BY DEF CatalogStep, libraryVars, rowVars
<1>3. ScheduledWasActive' /\ done' \in [Rows -> SUBSET Students]
  BY <1>1, <1>2 DEF DInv, RowsTyped, ScheduledWasActive, Core!MoveCatalog, Core!WriteCatalog, Core!intakeVars
<1> QED
  BY <1>1, <1>2, <1>3, CoreStepFits DEF Core!Next

LEMMA EveryStepFits == ASSUME DInv, [Next]_vars PROVE StepFits
<1>1. ASSUME NEW i \in Intakes, CurriculumStep(i) PROVE StepFits
  <2>1. ASSUME NEW l \in Sessions, NEW index \in 0 .. Cardinality(Sessions), BeginAttach(i, l, index) PROVE StepFits
    <3>1. index \in Nat
      BY LibraryAssumption, FS_CardinalityType
    <3> QED
      BY <2>1, <3>1, BeginAttachFits
  <2> QED
    BY <1>1, <2>1, ReorderFits, RemoveFits, UpdateDeliveryFits, ComesDueFits DEF CurriculumStep
<1>2. CASE UNCHANGED vars
  BY <1>2, LibraryFits DEF vars, libraryVars, rowVars, DInv, RowsTyped
<1> QED
  BY <1>1, <1>2, LibraryStepFits, IntakeStepFits, ProgressFits, SeatStepFits, CommitAttachFits, AbortsFit,
     CatalogStepFits DEF Next, ClassroomStep

LEMMA DeliveryNext == DInv /\ [Next]_vars => DInv'
<1> SUFFICES ASSUME DInv, [Next]_vars PROVE DInv'
  OBVIOUS
<1>1. StepFits
  BY EveryStepFits
<1>2. [CoreProofs!Next]_(CoreProofs!vars)
  BY <1>1, SameNext DEF StepFits, Core!vars, CoreProofs!vars, curriculum
<1>3. CoreProofs!IInv'
  BY <1>2, SameAssumptions, CoreProofs!InvStep DEF DInv
<1> QED
  BY <1>1, <1>3 DEF StepFits, DInv

\* What the core promises holds of the rows, the library and the classroom.
THEOREM DeliveryKeepsTheCore == Spec => []DInv
BY DeliveryInit, DeliveryNext, PTL DEF Spec

\* The rows implement the curriculum that the enrolment core assumes (attach, remove,
\* updateDelivery and the clock against IntakeEnrollment's moves).
THEOREM RowsImplementTheCore == Spec => ImplementsIntakeEnrollment
<1>1. DInv /\ [Next]_vars => [Core!Next]_(Core!vars)
  BY EveryStepFits DEF StepFits
<1>2. Init => Core!Init
  BY DEF Init
<1> QED
  BY <1>1, <1>2, DeliveryKeepsTheCore, PTL DEF Spec, ImplementsIntakeEnrollment, Core!Spec

-----------------------------------------------------------------------------
(* What learners are promised.                                               *)

\* A library write leaves a watchable session that is used watchable.
LEMMA WatchableStep ==
    ASSUME DInv, [Next]_vars, NEW i \in Intakes, NEW l \in Sessions,
           row[<<i, l>>] # "NONE", Watchable(l), redrafting # l
    PROVE  Watchable(l)'
<1>1. Used(l) /\ library \in [Sessions -> LibraryStates] /\ recording \in [Sessions -> BOOLEAN]
  BY DEF Used, DInv, RowsTyped
<1>2. CASE UNCHANGED <<library, recording>>
  BY <1>2 DEF Watchable
<1>3. ASSUME NEW m \in Sessions, NEW st, NEW has, WriteSession(m, st, has),
             m = l => st \in {"READY", "ARCHIVED"} /\ has
      PROVE  Watchable(l)'
  <2>1. library' = [library EXCEPT ![m] = st] /\ recording' = [recording EXCEPT ![m] = has]
    BY <1>3 DEF WriteSession
  <2> QED
    BY <1>1, <1>3, <2>1 DEF Watchable
<1>4. ASSUME NEW m \in Sessions, NEW st \in {"DRAFT", "READY", Same}, NEW has \in BOOLEAN,
             CreateSession(m, st, has) \/ UpdateSession(m, st, has)
      PROVE  Watchable(l)'
  <2>1. CASE CreateSession(m, st, has)
    BY <1>3, <2>1 DEF CreateSession, Watchable
  <2>2. CASE UpdateSession(m, st, has)
    <3>1. WriteSession(m, IF st = Same THEN library[m] ELSE st, has)
      BY <2>2 DEF UpdateSession
    <3>2. m = l => (IF st = Same THEN library[m] ELSE st) \in {"READY", "ARCHIVED"} /\ has
      BY <2>2, LibraryAssumption DEF UpdateSession, MayUpdate, Watchable
    <3> QED
      BY <1>3, <3>1, <3>2
  <2> QED
    BY <1>4, <2>1, <2>2
<1>5. ASSUME NEW m \in Sessions, NEW copy \in Sessions, Duplicate(m, copy) PROVE Watchable(l)'
  BY <1>3, <1>5 DEF Duplicate, Watchable
<1>6. ASSUME NEW m \in Sessions, ArchiveSession(m) PROVE Watchable(l)'
  BY <1>3, <1>6 DEF ArchiveSession, Watchable
<1>7. ASSUME NEW m \in Sessions, RestoreSession(m) PROVE Watchable(l)'
  BY <1>1, <1>3, <1>7 DEF RestoreSession, Restored, Watchable
<1>8. ASSUME NEW m \in Sessions, RemoveSession(m) PROVE Watchable(l)'
  BY <1>1, <1>3, <1>8 DEF RemoveSession
<1>9. ASSUME NEW m \in Sessions, BeginRedraft(m) PROVE Watchable(l)'
  BY <1>2, <1>9 DEF BeginRedraft
<1>10. ASSUME NEW m \in Sessions, NEW has \in BOOLEAN, redrafting = m, CommitRedraft(has) PROVE Watchable(l)'
  BY <1>1, <1>10 DEF CommitRedraft, Watchable
<1>11. ASSUME NEW j \in Intakes, CurriculumStep(j) PROVE UNCHANGED <<library, recording>>
  BY <1>11 DEF CurriculumStep, BeginAttach, Reorder, Remove, UpdateDelivery, ComesDue, libraryVars
<1>12. ASSUME NEW j \in Intakes, NEW s \in Students, ClassroomStep(j, s) \/ SeatStep(j, s)
       PROVE  UNCHANGED <<library, recording>>
  BY <1>12 DEF ClassroomStep, Complete, Uncomplete, SeatStep, libraryVars
<1>13. ASSUME NEW j \in Intakes, IntakeStep(j) PROVE UNCHANGED <<library, recording>>
  BY <1>13 DEF IntakeStep, libraryVars
<1>14. CASE CommitAttach \/ AbortAttach \/ AbortRedraft \/ CatalogStep \/ UNCHANGED vars
  BY <1>2, <1>14 DEF CommitAttach, AbortAttach, AbortRedraft, CatalogStep, libraryVars, vars
<1> QED
  BY <1>2, <1>4, <1>5, <1>6, <1>7, <1>8, <1>9, <1>10, <1>11, <1>12, <1>13, <1>14 DEF Next, LibraryStep

\* What learners can watch they keep, whatever is done in the library
\* (sessionLibrary.repository.js), but for an update that found the session unused.
THEOREM LearnersKeepWatching == Spec => WatchableLessonStays
<1>1. DInv /\ [Next]_vars =>
          \A i \in Intakes, l \in Sessions :
              row[<<i, l>>] # "NONE" /\ Visible(i, l) /\ Watchable(l) /\ redrafting # l => Watchable(l)'
  BY WatchableStep
<1> QED
  BY <1>1, DeliveryKeepsTheCore, PTL DEF Spec, WatchableLessonStays

LEMMA CompletionStep ==
    ASSUME DInv, [Next]_vars, NEW i \in Intakes, NEW l \in Sessions, NEW s \in Students,
           (s \in done[<<i, l>>]) # (s \in done'[<<i, l>>])
    PROVE  /\ enrolled[<<i, s>>] = "ACTIVE" /\ status[i] \in Core!Active
           /\ l \in Shown(i)
           /\ UNCHANGED <<libraryVars, row, order, delivery, due, released, attaching>>
           /\ \/ UNCHANGED enrollVars
              \/ enrolled'[<<i, s>>] = "COMPLETED" /\ s \in done'[<<i, l>>]
<1> DEFINE Goal == /\ enrolled[<<i, s>>] = "ACTIVE" /\ status[i] \in Core!Active
                   /\ l \in Shown(i)
                   /\ UNCHANGED <<libraryVars, row, order, delivery, due, released, attaching>>
                   /\ \/ UNCHANGED enrollVars
                      \/ enrolled'[<<i, s>>] = "COMPLETED" /\ s \in done'[<<i, l>>]
<1>1. <<i, l>> \in Rows /\ done \in [Rows -> SUBSET Students] /\ done' # done
  BY DEF Rows, DInv, RowsTyped
<1>2. ASSUME NEW j \in Intakes, NEW m \in Sessions, NEW t \in Students, Complete(j, m, t) \/ Uncomplete(j, m, t)
      PROVE  Goal
  <2>1. /\ enrolled[<<j, t>>] = "ACTIVE" /\ status[j] \in Core!Active /\ m \in Shown(j)
        /\ UNCHANGED <<enrollVars, libraryVars, row, order, delivery, due, released, attaching>>
        /\ \/ done' = [done EXCEPT ![<<j, m>>] = @ \cup {t}]
           \/ done' = [done EXCEPT ![<<j, m>>] = @ \ {t}]
    BY <1>2 DEF Complete, Uncomplete, MayChangeProgress
  <2>2. <<j, m>> = <<i, l>> /\ t = s
    BY <1>1, <2>1
  <2>3. j = i /\ m = l
    BY <2>2
  <2> QED
    BY <2>1, <2>2, <2>3
<1>3. ASSUME NEW j \in Intakes, NEW m \in Sessions, Remove(j, m) PROVE FALSE
  <2>1. done' = [done EXCEPT ![<<j, m>>] = IF HasHistory(j, m) THEN @ ELSE {}]
    BY <1>3 DEF Remove
  <2>2. done[<<j, m>>] = {} \/ HasHistory(j, m)
    BY DEF HasHistory
  <2>3. <<j, m>> \in Rows
    BY DEF Rows
  <2> QED
    BY <1>1, <2>1, <2>2, <2>3
<1>4. ASSUME NEW j \in Intakes, NEW t \in Students, SeatStep(j, t) PROVE Goal
  <2>1. /\ Core!SeatStep(j, t) /\ done' = Backfilled(j, t)
        /\ UNCHANGED <<libraryVars, row, order, delivery, due, released, attaching>>
    BY <1>4 DEF SeatStep
  <2>2. /\ i = j /\ enrolled[<<j, t>>] # "COMPLETED" /\ enrolled'[<<j, t>>] = "COMPLETED" /\ s = t
        /\ l \in Shown(j) /\ s \in done'[<<i, l>>]
    BY <1>1, <2>1 DEF Backfilled
  <2>3. CoreProofs!TypeOK /\ CoreProofs!SeatStep(j, t)
    BY <2>1, SameSeatStep DEF DInv, CoreProofs!IInv
  <2>4. enrolled[<<i, s>>] = "ACTIVE" /\ status[i] \in Core!Active
    BY <2>2, <2>3, CoreProofs!SeatMoves, SameAssumptions, SameSets
  <2> QED
    BY <2>1, <2>2, <2>4
<1>5. ASSUME NEW m \in Sessions, LibraryStep(m) PROVE done' = done
  BY <1>5 DEF LibraryStep, CreateSession, UpdateSession, Duplicate, ArchiveSession, RestoreSession, RemoveSession,
     BeginRedraft, CommitRedraft, WriteSession, rowVars
<1>6. ASSUME NEW j \in Intakes, CurriculumStep(j), \A m \in Sessions : ~Remove(j, m) PROVE done' = done
  BY <1>6 DEF CurriculumStep, BeginAttach, Reorder, UpdateDelivery, ComesDue, rowVars
<1>7. ASSUME NEW j \in Intakes, IntakeStep(j) PROVE done' = done
  BY <1>7 DEF IntakeStep, rowVars
<1>8. ASSUME CommitAttach \/ AbortAttach \/ AbortRedraft \/ CatalogStep \/ UNCHANGED vars PROVE FALSE
  BY <1>1, <1>8 DEF CommitAttach, AbortAttach, AbortRedraft, CatalogStep, rowVars, vars
<1> HIDE DEF Goal
<1>9. ASSUME NEW j \in Intakes, CurriculumStep(j) PROVE FALSE
  BY <1>1, <1>3, <1>6, <1>9
<1>10. ASSUME NEW j \in Intakes, NEW t \in Students, ClassroomStep(j, t) PROVE Goal
  BY <1>2, <1>10 DEF ClassroomStep
<1>11. Goal
  BY <1>1, <1>4, <1>5, <1>7, <1>8, <1>9, <1>10 DEF Next
<1> QED
  BY <1>11 DEF Goal

\* Learning history belongs to the learner: a step that touches the library or a
\* curriculum leaves every completion as it is; those of an active learner of an active
\* intake change by the learner's own step, and grow when the enrollment is completed
\* (classroom.repository.js, courseCurriculum.repository.js remove, updateStatus).
THEOREM HistoryIsTheLearners == Spec => CompletionsAreTheLearners
<1>1. DInv /\ [Next]_vars =>
          \A i \in Intakes, l \in Sessions, s \in Students :
              (s \in done[<<i, l>>]) # (s \in done'[<<i, l>>]) =>
                  /\ enrolled[<<i, s>>] = "ACTIVE" /\ status[i] \in Core!Active
                  /\ l \in Shown(i)
                  /\ UNCHANGED <<libraryVars, row, order, delivery, due, released, attaching>>
                  /\ \/ UNCHANGED enrollVars
                     \/ enrolled'[<<i, s>>] = "COMPLETED" /\ s \in done'[<<i, l>>]
  BY CompletionStep
<1> QED
  BY <1>1, DeliveryKeepsTheCore, PTL DEF Spec, CompletionsAreTheLearners

\* The lesson the dashboard sends a learner on to is open to them, because the core
\* keeps status, payment and enrollment together (dashboard.repository.js, classroom.service.js).
THEOREM DashboardLeadsOn == Spec => []ContinueLeadsOn
<1>1. DInv => ContinueLeadsOn
  <2> SUFFICES ASSUME DInv, NEW i \in Intakes, NEW s \in Students, NEW l \in Continue(i, s)
               PROVE  /\ l \in Classroom(i, s)
                      /\ attaching = Nothing => MayChangeProgress(i, l, s)
    BY DEF ContinueLeadsOn
  <2>1. enrolled[<<i, s>>] = "ACTIVE" /\ l \in Shown(i)
    BY DEF Continue
  <2>2. <<i, s>> \in CoreProofs!Seats /\ <<i, s>>[1] = i
    BY DEF CoreProofs!Seats
  <2>3. status[i] \in Core!Active
    BY <2>1 DEF DInv, CoreProofs!IInv, CoreProofs!TypeOK, CoreProofs!IntakeStates, CoreProofs!NoSeatBeforeOpening,
       CoreProofs!NoActiveLearnerInFinishedIntake, CoreProofs!Terminal, Core!Active
  <2>4. HasLearningAccess(i, s)
    <3>1. payment[<<i, s>>] \in CoreProofs!PaymentStates
      BY <2>2 DEF DInv, CoreProofs!IInv, CoreProofs!TypeOK
    <3>2. /\ payment[<<i, s>>] # "NONE"
          /\ payment[<<i, s>>] = "NOT_REQUIRED" <=> CoreProofs!Free(i)
      BY <2>1, <2>2 DEF DInv, CoreProofs!IInv, CoreProofs!LedgerMatchesPaymentStatus
    <3> QED
      BY <3>1, <3>2 DEF HasLearningAccess, CoreProofs!PaymentStates, Core!Free, CoreProofs!Free
  <2> QED
    BY <2>1, <2>3, <2>4 DEF Classroom, MayChangeProgress
<1> QED
  BY <1>1, DeliveryKeepsTheCore, PTL

-----------------------------------------------------------------------------
(* The numbers of a curriculum: an order of S numbers it 0, 1, ... in full.   *)

LEMMA OrderFacts ==
    ASSUME NEW S, IsFiniteSet(S), NEW f \in Orders(S)
    PROVE  /\ Cardinality(S) \in Nat
           /\ \A l \in S : f[l] \in Nat /\ f[l] < Cardinality(S)
           /\ \A l, m \in S : f[l] = f[m] => l = m
           /\ f = [l \in S |-> f[l]]
<1>1. Cardinality(S) \in Nat
  BY FS_CardinalityType
<1> QED
  BY <1>1 DEF Orders

LEMMA FirstNumbers == ASSUME NEW n \in Nat PROVE IsFiniteSet(0 .. n - 1) /\ Cardinality(0 .. n - 1) = n
BY FS_Interval

LEMMA OrderCovers ==
    ASSUME NEW S, IsFiniteSet(S), NEW f \in Orders(S)
    PROVE  {f[l] : l \in S} = 0 .. Cardinality(S) - 1
<1> DEFINE T == 0 .. Cardinality(S) - 1
<1>1. Cardinality(S) \in Nat
  BY OrderFacts
<1>2. IsFiniteSet(T) /\ Cardinality(T) = Cardinality(S)
  BY <1>1, FirstNumbers
<1>3. f \in Injection(S, T)
  BY DEF Orders, Injection, IsInjective
<1>4. f \in Surjection(S, T)
  BY <1>2, <1>3, FS_Injection
<1>5. f \in [S -> T] /\ \A t \in T : \E l \in S : f[l] = t
  BY <1>4 DEF Surjection
<1> HIDE DEF T
<1> QED
  BY <1>5 DEF T

\* A lesson has as many before it as its number says.
LEMMA OrderRanks ==
    ASSUME NEW S, IsFiniteSet(S), NEW f \in Orders(S), NEW l \in S
    PROVE  Cardinality({m \in S : f[m] < f[l]}) = f[l]
<1> DEFINE B == {m \in S : f[m] < f[l]}
           T == 0 .. f[l] - 1
           g == [m \in B |-> f[m]]
<1>1. f[l] \in Nat /\ f[l] < Cardinality(S) /\ Cardinality(S) \in Nat
  BY OrderFacts
<1>2. IsFiniteSet(T) /\ Cardinality(T) = f[l]
  BY <1>1, FirstNumbers
<1>3. \A m \in B : f[m] \in T
  BY <1>1, OrderFacts
<1>4. \A m, k \in B : f[m] = f[k] => m = k
  BY OrderFacts
<1>5. \A t \in T : \E m \in B : f[m] = t
  <2> SUFFICES ASSUME NEW t \in T PROVE \E m \in B : f[m] = t
    OBVIOUS
  <2>1. t \in 0 .. Cardinality(S) - 1 /\ t < f[l]
    BY <1>1
  <2>2. PICK m \in S : f[m] = t
    BY <2>1, OrderCovers
  <2> QED
    BY <2>1, <2>2
<1> HIDE DEF T, B
<1>6. g \in Injection(B, T)
  BY <1>3, <1>4 DEF Injection, IsInjective
<1>7. g \in Surjection(B, T)
  BY <1>3, <1>5 DEF Surjection
<1>8. Cardinality(B) = Cardinality(T)
  BY <1>2, <1>6, <1>7, FS_Injection
<1> QED
  BY <1>2, <1>8 DEF B

LEMMA OrderInserts ==
    ASSUME NEW S, IsFiniteSet(S), NEW f \in Orders(S), NEW x, x \notin S, NEW k \in 0 .. Cardinality(S)
    PROVE  [m \in S \cup {x} |-> IF m = x THEN k ELSE f[m] + IF f[m] < k THEN 0 ELSE 1] \in Orders(S \cup {x})
<1> DEFINE n == Cardinality(S)
           new(m) == IF m = x THEN k ELSE f[m] + IF f[m] < k THEN 0 ELSE 1
<1>1. n \in Nat /\ k \in Nat /\ k <= n
  BY OrderFacts
<1>2. Cardinality(S \cup {x}) = n + 1
  BY FS_AddElement
<1>3. \A m \in S : m # x /\ f[m] \in Nat /\ f[m] < n
  BY OrderFacts
<1>4. \A l, m \in S : f[l] = f[m] => l = m
  BY OrderFacts
<1> HIDE DEF n
<1>5. \A m \in S \cup {x} : new(m) \in 0 .. n
  BY <1>1, <1>3
<1>6. \A l, m \in S \cup {x} : new(l) = new(m) => l = m
  BY <1>1, <1>3, <1>4
<1> HIDE DEF new
<1>8. [m \in S \cup {x} |-> new(m)] \in Orders(S \cup {x})
  <2> DEFINE R == S \cup {x}
             h == [m \in R |-> new(m)]
  <2>1. \A m \in R : new(m) \in 0 .. Cardinality(R) - 1
    BY <1>1, <1>2, <1>5
  <2>2. \A l, m \in R : new(l) = new(m) => l = m
    BY <1>6
  <2> HIDE DEF R
  <2>3. h \in Orders(R)
    BY <2>1, <2>2 DEF Orders
  <2> QED
    BY <2>3 DEF R
<1> QED
  BY <1>8 DEF new

LEMMA OrderCloses ==
    ASSUME NEW S, IsFiniteSet(S), NEW f \in Orders(S), NEW x \in S
    PROVE  [m \in S \ {x} |-> f[m] - IF f[m] > f[x] THEN 1 ELSE 0] \in Orders(S \ {x})
<1> DEFINE n == Cardinality(S)
           new(m) == f[m] - IF f[m] > f[x] THEN 1 ELSE 0
<1>1. n \in Nat
  BY OrderFacts
<1>2. Cardinality(S \ {x}) = n - 1
  BY FS_RemoveElement
<1>3. \A m \in S : f[m] \in Nat /\ f[m] < n
  BY OrderFacts
<1>4. \A l, m \in S : f[l] = f[m] => l = m
  BY OrderFacts
<1> HIDE DEF n
<1>5. \A m \in S \ {x} : f[m] # f[x]
  BY <1>4
<1>6. \A m \in S \ {x} : new(m) \in 0 .. n - 1 - 1
  BY <1>1, <1>3, <1>5
<1>7. \A l, m \in S \ {x} : new(l) = new(m) => l = m
  BY <1>3, <1>4, <1>5
<1> HIDE DEF new
<1>8. [m \in S \ {x} |-> new(m)] \in Orders(S \ {x})
  BY <1>2, <1>6, <1>7 DEF Orders
<1> QED
  BY <1>8 DEF new

-----------------------------------------------------------------------------
Numbering(i) == [l \in Live(i) |-> order[<<i, l>>]]

\* The live lessons are in order, and an attach under way has a place among them.
AttachInRange == attaching # Nothing => attaching.index \in 0 .. Last(attaching.intake)

NumInv == AttachInRange /\ \A i \in Intakes : Numbering(i) \in Orders(Live(i))

LEMMA LiveFinite == ASSUME NEW i PROVE IsFiniteSet(Live(i)) /\ Live(i) \subseteq Sessions
BY LibraryAssumption, FS_Subset DEF Live

LEMMA RankIsNumber ==
    ASSUME NumInv, NEW i \in Intakes, NEW l \in Live(i)
    PROVE  Rank(i, l) = order[<<i, l>>] /\ Numbering(i)[l] = order[<<i, l>>]
<1> DEFINE f == Numbering(i)
<1>1. \A m \in Live(i) : f[m] = order[<<i, m>>]
  BY DEF Numbering
<1>2. f \in Orders(Live(i))
  BY DEF NumInv
<1> HIDE DEF f
<1>3. Cardinality({m \in Live(i) : f[m] < f[l]}) = f[l]
  BY <1>2, LiveFinite, OrderRanks
<1>4. {m \in Live(i) : f[m] < f[l]} = {m \in Live(i) : order[<<i, m>>] < order[<<i, l>>]}
  BY <1>1
<1> QED
  BY <1>1, <1>3, <1>4 DEF Rank, f

LEMMA NumInit == Init => NumInv
<1> SUFFICES ASSUME Init PROVE NumInv
  OBVIOUS
<1>1. \A i \in Intakes : Live(i) = IF i \in Seeded THEN {Example} ELSE {}
  BY LibraryAssumption DEF Init, Live, Rows
<1>2. ASSUME NEW i \in Intakes PROVE Numbering(i) \in Orders(Live(i))
  <2>1. CASE i \in Seeded
    <3>1. Live(i) = {Example} /\ Cardinality(Live(i)) = 1
      BY <1>1, <2>1, FS_Singleton
    <3>2. order[<<i, Example>>] = 0
      BY LibraryAssumption DEF Init, Rows
    <3> QED
      BY <3>1, <3>2 DEF Numbering, Orders
  <2>2. CASE i \notin Seeded
    <3>1. Live(i) = {} /\ Cardinality(Live(i)) = 0
      BY <1>1, <2>2, FS_EmptySet
    <3> QED
      BY <3>1 DEF Numbering, Orders
  <2> QED
    BY <2>1, <2>2
<1> QED
  BY <1>2 DEF NumInv, AttachInRange, Init

\* Rows and numbers stay, and no attach has begun.
LEMMA NumbersStay ==
    ASSUME NumInv, row' = row, order' = order, attaching' \in {Nothing, attaching} PROVE NumInv'
<1>1. \A i \in Intakes : Live(i)' = Live(i) /\ Numbering(i)' = Numbering(i)
  BY DEF Live, Numbering
<1>2. \A i \in Intakes : Numbering(i)' \in Orders(Live(i)')
  BY <1>1 DEF NumInv
<1>3. AttachInRange'
  BY DEF NumInv, AttachInRange, Last, Live
<1> QED
  BY <1>2, <1>3 DEF NumInv

LEMMA NumBeginAttach ==
    ASSUME NumInv, NEW i \in Intakes, NEW l \in Sessions, NEW index, BeginAttach(i, l, index) PROVE NumInv'
<1>1. row' = row /\ order' = order /\ attaching' = [intake |-> i, session |-> l, index |-> index]
  BY DEF BeginAttach, rowVars
<1>2. \A j \in Intakes : Live(j)' = Live(j) /\ Numbering(j)' = Numbering(j)
  BY <1>1 DEF Live, Numbering
<1>3. index \in 0 .. Last(i) /\ Last(i)' = Last(i)
  BY <1>1 DEF BeginAttach, Live, Last
<1>4. AttachInRange'
  BY <1>1, <1>3 DEF AttachInRange, Last, Live
<1>5. \A j \in Intakes : Numbering(j)' \in Orders(Live(j)')
  BY <1>2 DEF NumInv
<1> QED
  BY <1>4, <1>5 DEF NumInv

LEMMA NumCommitAttach == ASSUME DInv, NumInv, CommitAttach PROVE NumInv'
<1>1. PICK i \in Intakes, x \in Sessions, k \in Nat : attaching = [intake |-> i, session |-> x, index |-> k]
  BY DEF DInv, RowsTyped, CommitAttach
<1>2. attaching # Nothing /\ attaching' = Nothing
  BY DEF CommitAttach
<1>3. row' = [row EXCEPT ![<<i, x>>] = "LIVE"] /\ row \in [Rows -> RowStates] /\ <<i, x>> \in Rows
  BY <1>1 DEF CommitAttach, DInv, RowsTyped, Rows
<1>4. x \notin Live(i) /\ k \in 0 .. Last(i)
  BY <1>1, <1>2 DEF DInv, AttachHeld, NumInv, AttachInRange, Live
<1>5. \A j \in Intakes, m \in Sessions :
        order'[<<j, m>>] = IF j = i /\ m = x THEN k
                           ELSE IF j = i /\ m \in Live(i) THEN Rank(i, m) + (IF Rank(i, m) < k THEN 0 ELSE 1)
                           ELSE order[<<j, m>>]
  BY <1>1 DEF CommitAttach, Rows, Live
<1>6. ASSUME NEW j \in Intakes, j # i PROVE Numbering(j)' \in Orders(Live(j)')
  <2>1. Live(j)' = Live(j)
    BY <1>3, <1>6 DEF Live, Rows
  <2>2. \A m \in Live(j) : order'[<<j, m>>] = order[<<j, m>>]
    BY <1>5, <1>6, LiveFinite
  <2>3. Numbering(j)' = Numbering(j)
    BY <2>1, <2>2 DEF Numbering
  <2> QED
    BY <2>1, <2>3 DEF NumInv
<1>7. Numbering(i)' \in Orders(Live(i)')
  <2> DEFINE f == Numbering(i)
             S == Live(i)
  <2>1. Live(i)' = S \cup {x}
    BY <1>3 DEF Live, Rows
  <2>2. f \in Orders(S) /\ IsFiniteSet(S) /\ S \subseteq Sessions /\ k \in 0 .. Cardinality(S)
    BY <1>4, LiveFinite DEF NumInv, Last
  <2>3. \A m \in S : Rank(i, m) = f[m]
    BY RankIsNumber
  <2> HIDE DEF f, S
  <2>4. \A m \in S \cup {x} : order'[<<i, m>>] = IF m = x THEN k ELSE f[m] + IF f[m] < k THEN 0 ELSE 1
    BY <1>5, <2>2, <2>3 DEF S
  <2>5. Numbering(i)' = [m \in S \cup {x} |-> IF m = x THEN k ELSE f[m] + IF f[m] < k THEN 0 ELSE 1]
    BY <2>1, <2>4 DEF Numbering
  <2>6. x \notin S
    BY <1>4 DEF S
  <2> QED
    BY <2>1, <2>2, <2>5, <2>6, OrderInserts
<1> QED
  BY <1>2, <1>6, <1>7 DEF NumInv, AttachInRange

LEMMA NumReorder ==
    ASSUME NumInv, NEW i \in Intakes, NEW p, NEW ack, Reorder(i, p, ack) PROVE NumInv'
<1>1. row' = row /\ attaching' = Nothing /\ p \in Orders(Live(i))
  BY DEF Reorder, Editing
<1>2. \A j \in Intakes : Live(j)' = Live(j)
  BY <1>1 DEF Live
<1>3. \A j \in Intakes : \A m \in Live(j) : order'[<<j, m>>] = IF j = i THEN p[m] ELSE order[<<j, m>>]
  BY LiveFinite DEF Reorder, Rows, Live
<1>4. ASSUME NEW j \in Intakes PROVE Numbering(j)' \in Orders(Live(j)')
  <2>1. CASE j = i
    <3>1. p = [m \in Live(i) |-> p[m]]
      BY <1>1, LiveFinite, OrderFacts
    <3>2. Numbering(i)' = p
      BY <1>2, <1>3, <2>1, <3>1 DEF Numbering
    <3> QED
      BY <1>1, <1>2, <2>1, <3>2
  <2>2. CASE j # i
    <3>1. Numbering(j)' = Numbering(j)
      BY <1>2, <1>3, <2>2 DEF Numbering
    <3> QED
      BY <1>2, <3>1 DEF NumInv
  <2> QED
    BY <2>1, <2>2
<1> QED
  BY <1>1, <1>4 DEF NumInv, AttachInRange

LEMMA NumRemove ==
    ASSUME DInv, NumInv, NEW i \in Intakes, NEW x \in Sessions, Remove(i, x) PROVE NumInv'
<1>1. PICK st \in {"RETIRED", "NONE"} : row' = [row EXCEPT ![<<i, x>>] = st]
  BY DEF Remove
<1>2. attaching' = Nothing /\ x \in Live(i) /\ row \in [Rows -> RowStates] /\ <<i, x>> \in Rows
  BY DEF Remove, Editing, DInv, RowsTyped, Rows
<1>3. \A j \in Intakes, m \in Sessions :
        order'[<<j, m>>] = IF j = i /\ m = x THEN 0
                           ELSE IF j = i /\ m \in Live(i)
                                THEN Rank(i, m) - (IF Rank(i, m) > Rank(i, x) THEN 1 ELSE 0)
                           ELSE order[<<j, m>>]
  BY DEF Remove, Rows, Live
<1>4. ASSUME NEW j \in Intakes, j # i PROVE Numbering(j)' \in Orders(Live(j)')
  <2>1. Live(j)' = Live(j)
    BY <1>1, <1>2, <1>4 DEF Live, Rows
  <2>2. \A m \in Live(j) : order'[<<j, m>>] = order[<<j, m>>]
    BY <1>3, <1>4, LiveFinite
  <2>3. Numbering(j)' = Numbering(j)
    BY <2>1, <2>2 DEF Numbering
  <2> QED
    BY <2>1, <2>3 DEF NumInv
<1>5. Numbering(i)' \in Orders(Live(i)')
  <2> DEFINE f == Numbering(i)
             S == Live(i)
  <2>1. Live(i)' = S \ {x}
    BY <1>1, <1>2 DEF Live, Rows
  <2>2. f \in Orders(S) /\ IsFiniteSet(S) /\ S \subseteq Sessions /\ x \in S
    BY <1>2, LiveFinite DEF NumInv
  <2>3. \A m \in S : Rank(i, m) = f[m]
    BY RankIsNumber
  <2> HIDE DEF f, S
  <2>4. \A m \in S \ {x} : order'[<<i, m>>] = f[m] - IF f[m] > f[x] THEN 1 ELSE 0
    BY <1>3, <2>2, <2>3 DEF S
  <2>5. Numbering(i)' = [m \in S \ {x} |-> f[m] - IF f[m] > f[x] THEN 1 ELSE 0]
    BY <2>1, <2>4 DEF Numbering
  <2> QED
    BY <2>1, <2>2, <2>5, OrderCloses
<1> QED
  BY <1>2, <1>4, <1>5 DEF NumInv, AttachInRange

LEMMA NumNext == DInv /\ NumInv /\ [Next]_vars => NumInv'
<1> SUFFICES ASSUME DInv, NumInv, [Next]_vars PROVE NumInv'
  OBVIOUS
<1>1. ASSUME NEW l \in Sessions, LibraryStep(l) PROVE NumInv'
  BY <1>1, NumbersStay DEF LibraryStep, CreateSession, UpdateSession, Duplicate, ArchiveSession, RestoreSession,
     RemoveSession, BeginRedraft, CommitRedraft, WriteSession, rowVars
<1>2. ASSUME NEW i \in Intakes, CurriculumStep(i) PROVE NumInv'
  <2>1. ASSUME NEW l \in Sessions, NEW index, BeginAttach(i, l, index) PROVE NumInv'
    BY <2>1, NumBeginAttach
  <2>2. ASSUME NEW p, NEW ack, Reorder(i, p, ack) PROVE NumInv'
    BY <2>2, NumReorder
  <2>3. ASSUME NEW l \in Sessions, Remove(i, l) PROVE NumInv'
    BY <2>3, NumRemove
  <2>4. ASSUME NEW l \in Sessions, NEW next, NEW ack, UpdateDelivery(i, l, next, ack) PROVE NumInv'
    BY <2>4, NumbersStay DEF UpdateDelivery
  <2>5. ASSUME NEW l \in Sessions, ComesDue(i, l) PROVE NumInv'
    BY <2>5, NumbersStay DEF ComesDue
  <2> QED
    BY <1>2, <2>1, <2>2, <2>3, <2>4, <2>5 DEF CurriculumStep
<1>3. ASSUME NEW i \in Intakes, IntakeStep(i) PROVE NumInv'
  BY <1>3, NumbersStay DEF IntakeStep, rowVars
<1>4. ASSUME NEW i \in Intakes, NEW s \in Students, ClassroomStep(i, s) \/ SeatStep(i, s) PROVE NumInv'
  BY <1>4, NumbersStay DEF ClassroomStep, Complete, Uncomplete, SeatStep
<1>5. CASE CommitAttach
  BY <1>5, NumCommitAttach
<1>6. CASE AbortAttach \/ AbortRedraft \/ CatalogStep
  BY <1>6, NumbersStay DEF AbortAttach, AbortRedraft, CatalogStep, rowVars
<1>7. CASE UNCHANGED vars
  BY <1>7, NumbersStay DEF vars, rowVars
<1> QED
  BY <1>1, <1>2, <1>3, <1>4, <1>5, <1>6, <1>7 DEF Next
LEMMA LargestIs == ASSUME NEW M \in SUBSET Int, NEW m \in M, \A x \in M : x <= m PROVE Max(M) = m
<1>1. \A x \in M : (\A y \in M : x >= y) => x = m
  OBVIOUS
<1>2. \A y \in M : m >= y
  OBVIOUS
<1> QED
  BY <1>1, <1>2 DEF Max

LEMMA LargestNumber ==
    ASSUME NEW S, IsFiniteSet(S), NEW f \in Orders(S)
    PROVE  LET largest == Max({f[l] : l \in S} \cup {0})
           IN  largest \in Nat /\ \A l \in S : f[l] <= largest
<1> DEFINE n == Cardinality(S)
           M == {f[l] : l \in S} \cup {0}
<1>1. n \in Nat /\ M = (0 .. n - 1) \cup {0} /\ \A l \in S : f[l] \in Nat /\ f[l] < n
  BY OrderCovers, OrderFacts
<1> HIDE DEF n, M
<1>2. CASE n = 0
  <2>1. M = {0}
    BY <1>1, <1>2
  <2>2. Max(M) = 0
    BY <2>1, LargestIs
  <2> QED
    BY <1>1, <1>2, <2>2 DEF M
<1>3. CASE n > 0
  <2>1. M = 0 .. n - 1
    BY <1>1, <1>3
  <2>2. Max(M) = n - 1
    <3>1. M \in SUBSET Int /\ n - 1 \in M /\ \A x \in M : x <= n - 1
      BY <1>1, <1>3, <2>1
    <3> QED
      BY <3>1, LargestIs
  <2>3. n - 1 \in Nat /\ \A l \in S : f[l] <= n - 1
    BY <1>1, <1>3
  <2> QED
    BY <2>2, <2>3 DEF M
<1> QED
  BY <1>1, <1>2, <1>3

\* Rows that have been moved by an offset larger than every number in use, and rows
\* that have not.
LEMMA MovedApart ==
    ASSUME NEW S, IsFiniteSet(S), NEW f \in Orders(S), NEW T, NEW offset \in Nat, \A l \in S : f[l] < offset
    PROVE  \A l, m \in S : f[l] + (IF l \in T THEN offset ELSE 0) = f[m] + (IF m \in T THEN offset ELSE 0) => l = m
<1>1. \A l \in S : f[l] \in Nat
  BY OrderFacts
<1>2. \A l, m \in S : f[l] = f[m] => l = m
  BY OrderFacts
<1> QED
  BY <1>1, <1>2

\* What Written says of one row.
NumberOf(S, f, p, k, offset, l) == IF p[l] < k \/ l \notin S THEN p[l] ELSE f[l] + offset

\* No two rows of R have the same number.
Apart(R, S, f, p, k, offset) ==
    \A l, m \in R : NumberOf(S, f, p, k, offset, l) = NumberOf(S, f, p, k, offset, m) => l = m

\* Rows that have their new number, and rows still beyond the offset.
LEMMA WrittenApart ==
    ASSUME NEW S, IsFiniteSet(S), NEW f \in Orders(S), NEW x, NEW p \in Orders(S \cup {x}), NEW k \in Nat,
           NEW offset \in Nat, offset > Cardinality(S)
    PROVE  Apart(S \cup {x}, S, f, p, k, offset)
<1> DEFINE R == S \cup {x}
           final(l) == p[l] < k \/ l \notin S
<1>1. Cardinality(S) \in Nat /\ \A l \in S : f[l] \in Nat
  BY OrderFacts
<1>2. \A l, m \in S : f[l] = f[m] => l = m
  BY OrderFacts
<1>3. IsFiniteSet(R) /\ Cardinality(R) \in {Cardinality(S), Cardinality(S) + 1}
  BY FS_AddElement
<1>4. \A l \in R : p[l] \in Nat /\ p[l] < Cardinality(R)
  BY <1>3, OrderFacts
<1>5. \A l, m \in R : p[l] = p[m] => l = m
  BY <1>3, OrderFacts
<1>6. \A l \in R : p[l] < offset
  BY <1>1, <1>3, <1>4
<1>7. \A l \in R : ~final(l) => l \in S
  OBVIOUS
<1> HIDE DEF R, final
<1>8. ASSUME NEW l \in R, NEW m \in R,
             (IF final(l) THEN p[l] ELSE f[l] + offset) = (IF final(m) THEN p[m] ELSE f[m] + offset)
      PROVE  l = m
  <2>1. CASE final(l) /\ final(m)
    BY <1>5, <1>8, <2>1
  <2>2. CASE ~final(l) /\ ~final(m)
    <3>1. f[l] + offset = f[m] + offset /\ f[l] \in Nat /\ f[m] \in Nat /\ l \in S /\ m \in S
      BY <1>1, <1>7, <1>8, <2>2
    <3>2. \A a, b \in Nat : a + offset = b + offset => a = b
      OBVIOUS
    <3>3. f[l] = f[m]
      BY <3>1, <3>2
    <3> QED
      BY <1>2, <3>1, <3>3
  <2>3. CASE final(l) /\ ~final(m)
    <3>1. p[l] = f[m] + offset /\ f[m] \in Nat /\ p[l] \in Nat /\ p[l] < offset
      BY <1>1, <1>4, <1>6, <1>7, <1>8, <2>3
    <3> QED
      BY <3>1
  <2>4. CASE ~final(l) /\ final(m)
    <3>1. p[m] = f[l] + offset /\ f[l] \in Nat /\ p[m] \in Nat /\ p[m] < offset
      BY <1>1, <1>4, <1>6, <1>7, <1>8, <2>4
    <3> QED
      BY <3>1
  <2> QED
    BY <2>1, <2>2, <2>3, <2>4
<1> QED
  BY <1>8, Zenon DEF R, final, NumberOf, Apart

LEMMA NumbersSurvive == ASSUME NumInv PROVE NumbersSurviveRenumbering
<1> SUFFICES ASSUME NEW i \in Intakes
             PROVE  /\ {order[<<i, l>>] : l \in Live(i)} = 0 .. Last(i) - 1
                    /\ \A moved \in SUBSET Live(i) : Distinct(Moved(i, moved))
                    /\ \A l \in Sessions : \A p \in Orders(Live(i) \cup {l}) : \A k \in 0 .. Last(i) :
                          Distinct(Written(i, p, k))
  BY DEF NumbersSurviveRenumbering
<1> DEFINE f == Numbering(i)
           S == Live(i)
<1>1. f \in Orders(S) /\ IsFiniteSet(S) /\ Last(i) = Cardinality(S)
  BY LiveFinite DEF NumInv, Last
<1>2. \A l \in S : order[<<i, l>>] = f[l]
  BY DEF Numbering
<1>3. Offset(i) = Max({f[l] : l \in S} \cup {0}) + Last(i) + 1
  <2>1. {f[l] : l \in S} = {order[<<i, l>>] : l \in S}
    BY <1>2
  <2> QED
    BY <2>1 DEF Offset
<1>4. \A moved : Moved(i, moved) = [l \in S |-> f[l] + IF l \in moved THEN Offset(i) ELSE 0]
  BY <1>2 DEF Moved
<1>5. ASSUME NEW l \in Sessions, NEW p \in Orders(S \cup {l}), NEW k
      PROVE  Written(i, p, k) = [m \in S \cup {l} |-> IF p[m] < k \/ m \notin S THEN p[m] ELSE f[m] + Offset(i)]
  <2>1. DOMAIN p = S \cup {l}
    BY DEF Orders
  <2> QED
    BY <1>2, <2>1 DEF Written
<1> HIDE DEF f, S
<1>6. Offset(i) \in Nat /\ Offset(i) > Cardinality(S) /\ \A l \in S : f[l] < Offset(i)
  <2>1. PICK n \in Nat : n = Max({f[l] : l \in S} \cup {0}) /\ \A l \in S : f[l] <= n
    BY <1>1, LargestNumber
  <2>2. Offset(i) = n + Cardinality(S) + 1 /\ Cardinality(S) \in Nat /\ \A l \in S : f[l] \in Nat
    BY <1>1, <1>3, <2>1, OrderFacts
  <2> QED
    BY <2>1, <2>2
<1>7. {order[<<i, l>>] : l \in S} = 0 .. Last(i) - 1
  <2>1. {order[<<i, l>>] : l \in S} = {f[l] : l \in S}
    BY <1>2
  <2> QED
    BY <1>1, <2>1, OrderCovers
<1>8. ASSUME NEW moved \in SUBSET S PROVE Distinct(Moved(i, moved))
  BY <1>1, <1>4, <1>6, MovedApart DEF Distinct
<1>9. ASSUME NEW l \in Sessions, NEW p \in Orders(S \cup {l}), NEW k \in 0 .. Last(i)
      PROVE  Distinct(Written(i, p, k))
  <2>1. Apart(S \cup {l}, S, f, p, k, Offset(i))
    <3>1. k \in Nat
      BY <1>1, FS_CardinalityType
    <3>2. PICK offset \in Nat : offset = Offset(i) /\ offset > Cardinality(S)
      BY <1>6
    <3>3. Apart(S \cup {l}, S, f, p, k, offset)
      BY <1>1, <1>9, <3>1, <3>2, WrittenApart
    <3> QED
      BY <3>2, <3>3
  <2>2. Written(i, p, k) = [m \in S \cup {l} |-> NumberOf(S, f, p, k, Offset(i), m)]
    BY <1>5, <1>9, Zenon DEF NumberOf
  <2> QED
    BY <2>1, <2>2 DEF Distinct, Apart
<1> QED
  BY <1>7, <1>8, <1>9 DEF S

\* The live lessons of an intake are numbered 0, 1, ... without gap or repeat, for
\* any number of lessons, and no attach, reorder or compaction passes through a state
\* that the unique index refuses (courseCurriculum.repository.js).
THEOREM NumbersHold == Spec => []NumbersSurviveRenumbering
<1>1. Spec => [](DInv /\ NumInv)
  BY DeliveryInit, NumInit, DeliveryNext, NumNext, PTL DEF Spec
<1> QED
  BY <1>1, NumbersSurvive, PTL
=============================================================================
