----------------------- MODULE IntakeEnrollmentProofs -----------------------
(***************************************************************************)
(* Proofs that the enrolment core keeps its invariants for every set of    *)
(* courses, intakes and students.                                          *)
(***************************************************************************)
EXTENDS IntakeEnrollment, FiniteSetTheorems, TLAPS

-----------------------------------------------------------------------------
(* Type correctness.                                                         *)

LEMMA TypeInit == Init => TypeOK
BY CatalogAssumption DEF Init, TypeOK, CatalogStates, Badges, IntakeStates, CurriculumStates,
   EnrollmentStates, PaymentStates, BadgeFor, Seats

LEMMA BadgeType == \A c, st : BadgeFor(c, st) \in Badges
BY DEF BadgeFor, Badges

LEMMA TypeStep == TypeOK /\ [Next]_vars => TypeOK'
<1> SUFFICES ASSUME TypeOK, [Next]_vars PROVE TypeOK'
  OBVIOUS
<1> USE CatalogAssumption, CapacityAssumption, BadgeType
<1>1. ASSUME NEW next \in [Courses -> CatalogStates], MoveCatalog(next) PROVE TypeOK'
  BY <1>1 DEF MoveCatalog, WriteCatalog, intakeVars, seatVars, TypeOK
<1>2. ASSUME NEW i \in Intakes, NEW seats \in Capacities \cup {Unlimited}, CreateIntake(i, seats)
      PROVE TypeOK'
  BY <1>2 DEF CreateIntake, WriteNewIntake, WriteStatus, seatVars, TypeOK, IntakeStates
<1>3. ASSUME NEW i \in Intakes, NEW seats \in Capacities \cup {Unlimited}, UpdateSetup(i, seats)
      PROVE TypeOK'
  BY <1>3 DEF UpdateSetup, WriteSetup, seatVars, TypeOK
<1>4. ASSUME NEW i \in Intakes, NEW next \in IntakeStates, TransitionStatus(i, next)
      PROVE TypeOK'
  BY <1>4 DEF TransitionStatus, WriteTransition, WriteStatus, StatusAfter, EnrolledAfter, TypeOK,
     IntakeStates, EnrollmentStates
<1>5. ASSUME NEW i \in Intakes, RemovePermanently(i) PROVE TypeOK'
  BY <1>5 DEF RemovePermanently, WriteIntakeRemoved, WriteStatus, seatVars, TypeOK, IntakeStates
<1>6. ASSUME NEW i \in Intakes, NEW next \in CurriculumStates,
             EditCurriculum(i, next) \/ LessonComesDue(i, next)
      PROVE TypeOK'
  BY <1>6 DEF EditCurriculum, LessonComesDue, WriteCurriculum, seatVars, TypeOK
<1>7. ASSUME NEW i \in Intakes, NEW s \in Students, SeatStep(i, s) PROVE TypeOK'
  <2>1. ASSUME NEW p \in {"PARTIAL", "COMPLETED"}, CreatePaid(i, s, p) PROVE TypeOK'
    BY <2>1 DEF CreatePaid, WritePaid, intakeVars, TypeOK, Seats, EnrollmentStates, PaymentStates
  <2>2. CASE CompletePayment(i, s)
    BY <2>2 DEF CompletePayment, WriteTopUp, intakeVars, TypeOK, Seats, PaymentStates
  <2>3. CASE EnrollFree(i, s)
    BY <2>3 DEF EnrollFree, WriteFree, intakeVars, TypeOK, Seats, EnrollmentStates, PaymentStates
  <2>4. ASSUME NEW next \in EnrollmentStates, UpdateEnrollment(i, s, next) PROVE TypeOK'
    BY <2>4 DEF UpdateEnrollment, WriteEnrollment, intakeVars, TypeOK, Seats
  <2>5. CASE CreateIssued(i, s)
    BY <2>5 DEF CreateIssued, WriteIssued, intakeVars, TypeOK, Seats
  <2>6. CASE RevokeIssued(i, s)
    BY <2>6 DEF RevokeIssued, MayRevoke, WriteRevoked, intakeVars, TypeOK, Seats
  <2> QED
    BY <1>7, <2>1, <2>2, <2>3, <2>4, <2>5, <2>6 DEF SeatStep
<1>8. CASE UNCHANGED vars
  BY <1>8 DEF vars, TypeOK
<1> QED
  BY <1>1, <1>2, <1>3, <1>4, <1>5, <1>6, <1>7, <1>8 DEF Next, IntakeStep

\* Every variable keeps its type, whatever the catalog, the intakes and the
\* students are: no operation writes a status outside the code's enumerations and
\* no revocation takes the number of current certificates below zero.
THEOREM TypeCorrect == Spec => []TypeOK
BY TypeInit, TypeStep, PTL DEF Spec

-----------------------------------------------------------------------------
(* The inductive invariant: the safety invariants support one another, and    *)
(* need one more fact, that an intake that never opened has no enrollment.    *)

NoSeatBeforeOpening ==
    \A i \in Intakes, s \in Students : status[i] \in {"NONE", "DRAFT"} => enrolled[<<i, s>>] = "NONE"

IInv ==
    /\ TypeOK
    /\ NoSeatBeforeOpening
    /\ NoActiveLearnerInFinishedIntake
    /\ OneOpenIntakePerCourse
    /\ NoActiveIntakeUnderArchivedCatalog
    /\ LedgerMatchesPaymentStatus
    /\ CertificateIsEarned
    /\ OpenFreeIntakeShowsLesson
    /\ BadgeIsCurrent
    /\ CompletedIntakeIsFinished
    /\ EvergreenIntakeIsSingle

LEMMA InvInit == Init => IInv
<1> SUFFICES ASSUME Init PROVE IInv
  OBVIOUS
<1>1. TypeOK
  BY TypeInit
<1> USE CatalogAssumption, SeedAssumption DEF Init
<1>2. NoSeatBeforeOpening /\ NoActiveLearnerInFinishedIntake /\ CompletedIntakeIsFinished
  BY DEF NoSeatBeforeOpening, NoActiveLearnerInFinishedIntake, CompletedIntakeIsFinished, Seats
<1>3. OneOpenIntakePerCourse /\ EvergreenIntakeIsSingle
  BY DEF OneOpenIntakePerCourse, EvergreenIntakeIsSingle
<1>4. NoActiveIntakeUnderArchivedCatalog /\ OpenFreeIntakeShowsLesson
  BY DEF NoActiveIntakeUnderArchivedCatalog, OpenFreeIntakeShowsLesson, Active, HasVisibleLesson
<1>5. LedgerMatchesPaymentStatus /\ CertificateIsEarned /\ BadgeIsCurrent
  BY DEF LedgerMatchesPaymentStatus, HalvesDue, CertificateIsEarned, BadgeIsCurrent
<1> QED
  BY <1>1, <1>2, <1>3, <1>4, <1>5 DEF IInv

\* The lifecycle as a relation: which moves ALLOWED_TRANSITIONS permits.
LEMMA TransitionMoves ==
    ASSUME TypeOK, NEW i \in Intakes, NEW next \in IntakeStates, TransitionStatus(i, next)
    PROVE  \/ status[i] = "DRAFT" /\ next \in {"OPEN_ACTIVE", "CANCELLED"}
           \/ status[i] = "OPEN_ACTIVE" /\ next \in {"CLOSED_ACTIVE", "CANCELLED"}
           \/ status[i] = "CLOSED_ACTIVE" /\ next \in {"COMPLETED", "CANCELLED"}
           \/ status[i] \in {"COMPLETED", "CANCELLED"} /\ next = "ARCHIVED"
BY DEF TypeOK, IntakeStates, TransitionStatus, MayTransition, ReadyToTransition, IntakeMoves

\* What a transition writes, row by row.
LEMMA TransitionWrites ==
    ASSUME TypeOK, NEW i \in Intakes, NEW next \in IntakeStates, TransitionStatus(i, next)
    PROVE  /\ \A j \in Intakes : status'[j] =
                IF j = i THEN next
                ELSE IF next = "OPEN_ACTIVE" /\ CourseOf[j] = CourseOf[i] /\ status[j] = "OPEN_ACTIVE"
                     THEN "CLOSED_ACTIVE" ELSE status[j]
           /\ \A j \in Intakes, s \in Students : enrolled'[<<j, s>>] =
                IF next = "CANCELLED" /\ j = i /\ enrolled[<<j, s>>] = "ACTIVE"
                THEN "CANCELLED" ELSE enrolled[<<j, s>>]
           /\ UNCHANGED <<catalog, capacity, curriculum, payment, paid, issued>>
BY DEF TypeOK, Seats, TransitionStatus, WriteTransition, WriteStatus, StatusAfter, EnrolledAfter

LEMMA InvTransition ==
    ASSUME IInv, TypeOK', NEW i \in Intakes, NEW next \in IntakeStates, TransitionStatus(i, next)
    PROVE  IInv'
<1> USE CatalogAssumption, TransitionMoves, TransitionWrites DEF IInv
<1>1. NoSeatBeforeOpening'
  BY DEF NoSeatBeforeOpening
<1>2. NoActiveLearnerInFinishedIntake'
  BY DEF NoActiveLearnerInFinishedIntake, Terminal, TransitionStatus, MayTransition, ReadyToTransition, CompletionReady, Learners
<1>3. OneOpenIntakePerCourse'
  BY DEF OneOpenIntakePerCourse
<1>4. NoActiveIntakeUnderArchivedCatalog'
  BY DEF NoActiveIntakeUnderArchivedCatalog, Active, TransitionStatus, MayTransition, ReadyToTransition
<1>5. LedgerMatchesPaymentStatus'
  BY DEF LedgerMatchesPaymentStatus, Free, Seats
<1>6. CertificateIsEarned'
  BY DEF CertificateIsEarned, Certified, Seats
<1>7. OpenFreeIntakeShowsLesson'
  BY DEF OpenFreeIntakeShowsLesson, Free, HasVisibleLesson, TransitionStatus, MayTransition, ReadyToTransition
<1>8. BadgeIsCurrent'
  BY DEF BadgeIsCurrent, BadgeFor, Runs, TransitionStatus, WriteTransition, WriteStatus, TypeOK
<1>9. CompletedIntakeIsFinished'
  BY <1>2 DEF CompletedIntakeIsFinished, NoActiveLearnerInFinishedIntake, Terminal,
     TransitionStatus, MayTransition, ReadyToTransition, CompletionReady
<1>10. EvergreenIntakeIsSingle'
  BY DEF EvergreenIntakeIsSingle, Free
<1> QED
  BY <1>1, <1>2, <1>3, <1>4, <1>5, <1>6, <1>7, <1>8, <1>9, <1>10

LEMMA InvCreateIntake ==
    ASSUME IInv, NEW i \in Intakes, NEW seats \in Capacities \cup {Unlimited}, CreateIntake(i, seats)
    PROVE  IInv'
<1> USE CatalogAssumption DEF IInv, CreateIntake, MayCreateIntake, WriteNewIntake, WriteStatus, seatVars
<1>1. TypeOK'
  BY TypeStep DEF Next, IntakeStep
<1>2. /\ status[i] = "NONE"
      /\ \A j \in Intakes : status'[j] = IF j = i THEN "DRAFT" ELSE status[j]
      /\ UNCHANGED <<catalog, curriculum, enrolled, payment, paid, issued>>
  BY DEF TypeOK
<1>3. NoSeatBeforeOpening' /\ NoActiveLearnerInFinishedIntake' /\ CompletedIntakeIsFinished'
  BY <1>2 DEF NoSeatBeforeOpening, NoActiveLearnerInFinishedIntake, CompletedIntakeIsFinished, Terminal
<1>4. OneOpenIntakePerCourse' /\ NoActiveIntakeUnderArchivedCatalog' /\ OpenFreeIntakeShowsLesson'
  BY <1>2 DEF OneOpenIntakePerCourse, NoActiveIntakeUnderArchivedCatalog, OpenFreeIntakeShowsLesson,
     Active, Free, HasVisibleLesson
<1>5. LedgerMatchesPaymentStatus' /\ CertificateIsEarned'
  BY <1>2 DEF LedgerMatchesPaymentStatus, CertificateIsEarned, Free, Certified
<1>6. BadgeIsCurrent'
  BY DEF BadgeIsCurrent, BadgeFor, Runs, TypeOK
<1>7. EvergreenIntakeIsSingle'
  BY <1>2 DEF EvergreenIntakeIsSingle, Free, Runs
<1> QED
  BY <1>1, <1>3, <1>4, <1>5, <1>6, <1>7

LEMMA InvRemove ==
    ASSUME IInv, NEW i \in Intakes, RemovePermanently(i)
    PROVE  IInv'
<1> USE CatalogAssumption DEF IInv, RemovePermanently, MayRemoveIntake, WriteIntakeRemoved, WriteStatus, seatVars
<1>1. TypeOK'
  BY TypeStep DEF Next, IntakeStep
<1>2. /\ status[i] = "ARCHIVED"
      /\ \A j \in Intakes : status'[j] = IF j = i THEN "NONE" ELSE status[j]
      /\ UNCHANGED <<catalog, curriculum, enrolled, payment, paid, issued>>
  BY DEF TypeOK
<1>3. NoSeatBeforeOpening' /\ NoActiveLearnerInFinishedIntake' /\ CompletedIntakeIsFinished'
  BY <1>2 DEF NoSeatBeforeOpening, NoActiveLearnerInFinishedIntake, CompletedIntakeIsFinished, Terminal
<1>4. OneOpenIntakePerCourse' /\ NoActiveIntakeUnderArchivedCatalog' /\ OpenFreeIntakeShowsLesson'
  BY <1>2 DEF OneOpenIntakePerCourse, NoActiveIntakeUnderArchivedCatalog, OpenFreeIntakeShowsLesson,
     Active, Free, HasVisibleLesson
<1>5. LedgerMatchesPaymentStatus' /\ CertificateIsEarned'
  BY <1>2 DEF LedgerMatchesPaymentStatus, CertificateIsEarned, Free, Certified
<1>6. BadgeIsCurrent'
  BY DEF BadgeIsCurrent, BadgeFor, Runs, TypeOK
<1>7. EvergreenIntakeIsSingle'
  BY <1>2 DEF EvergreenIntakeIsSingle, Free
<1> QED
  BY <1>1, <1>3, <1>4, <1>5, <1>6, <1>7

LEMMA InvCurriculum ==
    ASSUME IInv, NEW i \in Intakes, NEW next \in CurriculumStates,
           EditCurriculum(i, next) \/ LessonComesDue(i, next)
    PROVE  IInv'
<1> USE CatalogAssumption DEF IInv
<1>1. TypeOK'
  BY TypeStep DEF Next, IntakeStep
<1>2. /\ curriculum' = [curriculum EXCEPT ![i] = next]
      /\ UNCHANGED <<catalog, badge, status, capacity, enrolled, payment, paid, issued>>
  BY DEF EditCurriculum, LessonComesDue, WriteCurriculum, seatVars
<1>3. OpenFreeIntakeShowsLesson'
  BY <1>2 DEF OpenFreeIntakeShowsLesson, HasVisibleLesson, Free, EditCurriculum, MayEditCurriculum,
     LessonComesDue, AttachMoves, DueMoves, KeepsVisibleLesson, TypeOK
<1>4. CompletedIntakeIsFinished'
  BY <1>2 DEF CompletedIntakeIsFinished, EditCurriculum, MayEditCurriculum, Editable, Terminal,
     LessonComesDue, DueMoves, TypeOK
<1>5. NoSeatBeforeOpening' /\ NoActiveLearnerInFinishedIntake' /\ OneOpenIntakePerCourse'
      /\ NoActiveIntakeUnderArchivedCatalog' /\ EvergreenIntakeIsSingle'
  BY <1>2 DEF NoSeatBeforeOpening, NoActiveLearnerInFinishedIntake, OneOpenIntakePerCourse,
     NoActiveIntakeUnderArchivedCatalog, EvergreenIntakeIsSingle, Free
<1>6. LedgerMatchesPaymentStatus' /\ CertificateIsEarned' /\ BadgeIsCurrent'
  BY <1>2 DEF LedgerMatchesPaymentStatus, CertificateIsEarned, BadgeIsCurrent, BadgeFor, Free, Certified
<1> QED
  BY <1>1, <1>3, <1>4, <1>5, <1>6

\* A seat operation changes the rows of its own seat only.
LEMMA SeatFrame ==
    ASSUME TypeOK, NEW i \in Intakes, NEW s \in Students, SeatStep(i, s)
    PROVE  /\ UNCHANGED <<catalog, badge, status, capacity, curriculum>>
           /\ \A e \in Seats \ {<<i, s>>} :
                 /\ enrolled'[e] = enrolled[e]
                 /\ payment'[e] = payment[e]
                 /\ paid'[e] = paid[e]
                 /\ issued'[e] = issued[e]
BY DEF TypeOK, SeatStep, CreatePaid, WritePaid, CompletePayment, WriteTopUp, EnrollFree, WriteFree,
   UpdateEnrollment, WriteEnrollment, CreateIssued, WriteIssued, RevokeIssued, WriteRevoked, intakeVars

\* What a seat operation may do to the enrollment status.
LEMMA SeatMoves ==
    ASSUME TypeOK, NEW i \in Intakes, NEW s \in Students, SeatStep(i, s),
           enrolled'[<<i, s>>] # enrolled[<<i, s>>]
    PROVE  \/ /\ enrolled[<<i, s>>] \in {"NONE", "CANCELLED"}
              /\ enrolled'[<<i, s>>] = "ACTIVE"
              /\ status[i] = "OPEN_ACTIVE"
           \/ /\ enrolled[<<i, s>>] = "ACTIVE"
              /\ enrolled'[<<i, s>>] = "CANCELLED"
              /\ status[i] \notin {"COMPLETED", "ARCHIVED"}
           \/ /\ enrolled[<<i, s>>] = "ACTIVE"
              /\ enrolled'[<<i, s>>] = "COMPLETED"
              /\ status[i] \in Active
              /\ Free(i) \/ payment[<<i, s>>] = "COMPLETED"
<1> DEFINE e == <<i, s>>
<1>0. e \in Seats
  BY DEF Seats
<1> USE <1>0 DEF TypeOK
<1>1. ASSUME NEW p \in {"PARTIAL", "COMPLETED"}, CreatePaid(i, s, p)
      PROVE  enrolled[e] = "NONE" /\ enrolled'[e] = "ACTIVE" /\ status[i] = "OPEN_ACTIVE"
  BY <1>1 DEF CreatePaid, MayCreatePaid, WritePaid
<1>2. CASE EnrollFree(i, s)
  BY <1>2 DEF EnrollFree, MayEnrollFree, WriteFree
<1>3. ASSUME NEW next \in EnrollmentStates, UpdateEnrollment(i, s, next)
      PROVE  /\ enrolled'[e] = next
             /\ \/ enrolled[e] = "ACTIVE" /\ next \in {"COMPLETED", "CANCELLED"}
                \/ enrolled[e] = "CANCELLED" /\ next = "ACTIVE" /\ status[i] = "OPEN_ACTIVE"
             /\ status[i] \notin {"COMPLETED", "ARCHIVED"}
             /\ next = "COMPLETED" => status[i] \in Active /\ (Free(i) \/ payment[e] = "COMPLETED")
  BY <1>3 DEF UpdateEnrollment, MayUpdateEnrollment, AllowedUpdate, ReadyToUpdate, WriteEnrollment, EnrollmentMoves, EnrollmentStates
<1>4. CASE CompletePayment(i, s) \/ CreateIssued(i, s) \/ RevokeIssued(i, s)
  BY <1>4 DEF CompletePayment, WriteTopUp, CreateIssued, WriteIssued, RevokeIssued, WriteRevoked
<1> QED
  BY <1>1, <1>2, <1>3, <1>4 DEF SeatStep

LEMMA LedgerStep ==
    ASSUME TypeOK, LedgerMatchesPaymentStatus, NEW i \in Intakes, NEW s \in Students, SeatStep(i, s)
    PROVE  LedgerMatchesPaymentStatus'
<1> DEFINE e == <<i, s>>
           Matches == /\ paid[e] = HalvesDue[payment[e]]
                      /\ payment[e] = "NONE" <=> enrolled[e] = "NONE"
                      /\ payment[e] = "NOT_REQUIRED" <=> enrolled[e] # "NONE" /\ Free(i)
<1>0. e \in Seats /\ e[1] = i
  BY DEF Seats
<1>1. Matches
  BY <1>0 DEF LedgerMatchesPaymentStatus
<1> USE <1>0, <1>1 DEF TypeOK, HalvesDue, Free
<1>2. ASSUME NEW p \in {"PARTIAL", "COMPLETED"}, CreatePaid(i, s, p) PROVE Matches'
  BY <1>2 DEF CreatePaid, MayCreatePaid, WritePaid
<1>3. ASSUME CompletePayment(i, s) PROVE Matches'
  BY <1>3 DEF CompletePayment, MayCompletePayment, WriteTopUp
<1>4. ASSUME EnrollFree(i, s) PROVE Matches'
  BY <1>4 DEF EnrollFree, MayEnrollFree, WriteFree, PaymentStates
<1>5. ASSUME NEW next \in EnrollmentStates, UpdateEnrollment(i, s, next) PROVE Matches'
  BY <1>5 DEF UpdateEnrollment, MayUpdateEnrollment, AllowedUpdate, ReadyToUpdate, WriteEnrollment, EnrollmentMoves, EnrollmentStates
<1>6. ASSUME CreateIssued(i, s) \/ RevokeIssued(i, s) PROVE Matches'
  BY <1>6 DEF CreateIssued, WriteIssued, RevokeIssued, WriteRevoked
<1>7. Matches'
  BY <1>2, <1>3, <1>4, <1>5, <1>6 DEF SeatStep
<1> QED
  BY <1>7, SeatFrame DEF LedgerMatchesPaymentStatus

LEMMA CertificateStep ==
    ASSUME TypeOK, CertificateIsEarned, LedgerMatchesPaymentStatus,
           NEW i \in Intakes, NEW s \in Students, SeatStep(i, s)
    PROVE  CertificateIsEarned'
<1> DEFINE e == <<i, s>>
           Earned == issued[e] > 0 =>
                        /\ issued[e] = 1
                        /\ enrolled[e] = "COMPLETED"
                        /\ payment[e] \in {"COMPLETED", "NOT_REQUIRED"}
                        /\ Certified(i)
<1>0. e \in Seats /\ e[1] = i
  BY DEF Seats
<1>1. Earned
  BY <1>0 DEF CertificateIsEarned
<1> USE <1>0, <1>1 DEF TypeOK, Certified
<1>2. ASSUME NEW p \in {"PARTIAL", "COMPLETED"}, CreatePaid(i, s, p) PROVE Earned'
  BY <1>2 DEF CreatePaid, MayCreatePaid, WritePaid
<1>3. ASSUME CompletePayment(i, s) PROVE Earned'
  BY <1>3 DEF CompletePayment, MayCompletePayment, WriteTopUp
<1>4. ASSUME EnrollFree(i, s) PROVE Earned'
  BY <1>4 DEF EnrollFree, MayEnrollFree, WriteFree
<1>5. ASSUME NEW next \in EnrollmentStates, UpdateEnrollment(i, s, next) PROVE Earned'
  BY <1>5 DEF UpdateEnrollment, MayUpdateEnrollment, AllowedUpdate, ReadyToUpdate, WriteEnrollment, EnrollmentMoves
<1>6. ASSUME CreateIssued(i, s) PROVE Earned'
  BY <1>6 DEF CreateIssued, MayIssue, WriteIssued
<1>7. ASSUME RevokeIssued(i, s) PROVE Earned'
  BY <1>7 DEF RevokeIssued, MayRevoke, WriteRevoked
<1>8. Earned'
  BY <1>2, <1>3, <1>4, <1>5, <1>6, <1>7 DEF SeatStep
<1> QED
  BY <1>8, SeatFrame DEF CertificateIsEarned

LEMMA InvSeat ==
    ASSUME IInv, NEW i \in Intakes, NEW s \in Students, SeatStep(i, s)
    PROVE  IInv'
<1> USE CatalogAssumption, SeatFrame, SeatMoves DEF IInv
<1>1. TypeOK'
  BY TypeStep DEF Next
<1>2. \A e \in Seats : e # <<i, s>> => enrolled'[e] = enrolled[e]
  OBVIOUS
<1>3. NoSeatBeforeOpening' /\ NoActiveLearnerInFinishedIntake'
  BY <1>2 DEF NoSeatBeforeOpening, NoActiveLearnerInFinishedIntake, Seats, Active, Terminal
<1>4. LedgerMatchesPaymentStatus' /\ CertificateIsEarned'
  BY LedgerStep, CertificateStep
<1>5. CompletedIntakeIsFinished'
  BY <1>2 DEF CompletedIntakeIsFinished, Seats, Active
<1>6. OneOpenIntakePerCourse' /\ NoActiveIntakeUnderArchivedCatalog' /\ OpenFreeIntakeShowsLesson'
      /\ BadgeIsCurrent' /\ EvergreenIntakeIsSingle'
  BY DEF OneOpenIntakePerCourse, NoActiveIntakeUnderArchivedCatalog, OpenFreeIntakeShowsLesson,
     BadgeIsCurrent, BadgeFor, EvergreenIntakeIsSingle, HasVisibleLesson, Free
<1> QED
  BY <1>1, <1>3, <1>4, <1>5, <1>6

LEMMA InvStep == IInv /\ [Next]_vars => IInv'
<1> SUFFICES ASSUME IInv, [Next]_vars PROVE IInv'
  OBVIOUS
<1>1. ASSUME NEW next \in [Courses -> CatalogStates], MoveCatalog(next) PROVE IInv'
  <2>1. TypeOK'
    BY <1>1, TypeStep DEF IInv, Next
  <2>2. catalog' = next /\ UNCHANGED <<badge, status, capacity, curriculum, enrolled, payment, paid, issued>>
    BY <1>1 DEF MoveCatalog, WriteCatalog, intakeVars, seatVars
  <2>3. NoActiveIntakeUnderArchivedCatalog'
    BY <1>1, <2>2, CatalogAssumption DEF IInv, MoveCatalog, MayMoveCatalog, Runs, NoActiveIntakeUnderArchivedCatalog
  <2>4. NoSeatBeforeOpening' /\ NoActiveLearnerInFinishedIntake' /\ OneOpenIntakePerCourse'
        /\ CompletedIntakeIsFinished' /\ EvergreenIntakeIsSingle' /\ OpenFreeIntakeShowsLesson'
    BY <2>2 DEF IInv, NoSeatBeforeOpening, NoActiveLearnerInFinishedIntake, OneOpenIntakePerCourse,
       CompletedIntakeIsFinished, EvergreenIntakeIsSingle, OpenFreeIntakeShowsLesson, HasVisibleLesson, Free
  <2>5. LedgerMatchesPaymentStatus' /\ CertificateIsEarned' /\ BadgeIsCurrent'
    BY <2>2 DEF IInv, LedgerMatchesPaymentStatus, CertificateIsEarned, BadgeIsCurrent, BadgeFor, Free, Certified
  <2> QED
    BY <2>1, <2>3, <2>4, <2>5 DEF IInv
<1>2. ASSUME NEW i \in Intakes, IntakeStep(i) PROVE IInv'
  <2>1. ASSUME NEW seats \in Capacities \cup {Unlimited}, UpdateSetup(i, seats) PROVE IInv'
    <3>1. TypeOK'
      BY <2>1, TypeStep DEF IInv, Next, IntakeStep
    <3>2. UNCHANGED <<catalog, badge, status, curriculum, enrolled, payment, paid, issued>>
      BY <2>1 DEF UpdateSetup, WriteSetup, seatVars
    <3> QED
      BY <3>1, <3>2 DEF IInv, NoSeatBeforeOpening, NoActiveLearnerInFinishedIntake, OneOpenIntakePerCourse,
         NoActiveIntakeUnderArchivedCatalog, LedgerMatchesPaymentStatus, CertificateIsEarned,
         OpenFreeIntakeShowsLesson, BadgeIsCurrent, BadgeFor, CompletedIntakeIsFinished,
         EvergreenIntakeIsSingle, HasVisibleLesson, Free, Certified
  <2>2. ASSUME NEW next \in IntakeStates, TransitionStatus(i, next) PROVE IInv'
    <3>1. TypeOK'
      BY <2>2, TypeStep DEF IInv, Next, IntakeStep
    <3> QED
      BY <2>2, <3>1, InvTransition
  <2> QED
    BY <1>2, <2>1, <2>2, InvCreateIntake, InvRemove, InvCurriculum DEF IntakeStep
<1>3. CASE UNCHANGED vars
  BY <1>3 DEF vars, IInv, TypeOK, NoSeatBeforeOpening, NoActiveLearnerInFinishedIntake, OneOpenIntakePerCourse,
     NoActiveIntakeUnderArchivedCatalog, LedgerMatchesPaymentStatus, CertificateIsEarned,
     OpenFreeIntakeShowsLesson, BadgeIsCurrent, BadgeFor, CompletedIntakeIsFinished,
     EvergreenIntakeIsSingle, HasVisibleLesson, Free, Certified
<1> QED
  BY <1>1, <1>2, <1>3, InvSeat DEF Next

LEMMA Invariance == Spec => []IInv
BY InvInit, InvStep, PTL DEF Spec

\* No learner is left ACTIVE in a completed, cancelled or archived intake.
THEOREM FinishedIntakeHasNoActiveLearner == Spec => []NoActiveLearnerInFinishedIntake
BY Invariance, PTL DEF IInv

\* At most one intake of a course takes enrolments.
THEOREM AtMostOneOpenIntake == Spec => []OneOpenIntakePerCourse
BY Invariance, PTL DEF IInv

\* No intake is active under an archived service, category or course.
THEOREM ArchivedCatalogIsIdle == Spec => []NoActiveIntakeUnderArchivedCatalog
BY Invariance, PTL DEF IInv

\* The payments of an enrollment add up to its payment status.
THEOREM LedgerIsConsistent == Spec => []LedgerMatchesPaymentStatus
BY Invariance, PTL DEF IInv

\* Every current certificate is unique and earned.
THEOREM CertificatesAreEarned == Spec => []CertificateIsEarned
BY Invariance, PTL DEF IInv

\* An evergreen intake that takes enrolments always shows a lesson.
THEOREM OpenFreeIntakeIsWatchable == Spec => []OpenFreeIntakeShowsLesson
BY Invariance, PTL DEF IInv

\* The stored enrollment_status of a course is never stale.
THEOREM BadgeNeverStale == Spec => []BadgeIsCurrent
BY Invariance, PTL DEF IInv

\* A completed intake keeps every lesson visible and has no learner under way.
THEOREM CompletedIsFinished == Spec => []CompletedIntakeIsFinished
BY Invariance, PTL DEF IInv

\* A free course never has two intakes.
THEOREM EvergreenIsSingle == Spec => []EvergreenIntakeIsSingle
BY Invariance, PTL DEF IInv

-----------------------------------------------------------------------------
(* Completion and payment.                                                   *)

\* A completed enrollment has nothing left to pay.
CompletionIsPaid ==
    \A e \in Seats : enrolled[e] = "COMPLETED" => payment[e] \in {"COMPLETED", "NOT_REQUIRED"}

\* No step takes a payment back, but for a new enrollment, which is not completed.
LEMMA PaymentMoves ==
    ASSUME TypeOK, NEW i \in Intakes, NEW s \in Students, SeatStep(i, s)
    PROVE  \/ payment'[<<i, s>>] = payment[<<i, s>>]
           \/ payment'[<<i, s>>] \in {"COMPLETED", "NOT_REQUIRED"}
           \/ enrolled'[<<i, s>>] = "ACTIVE"
<1> USE DEF TypeOK, Seats
<1>1. ASSUME NEW p \in {"PARTIAL", "COMPLETED"}, CreatePaid(i, s, p) PROVE enrolled'[<<i, s>>] = "ACTIVE"
  BY <1>1 DEF CreatePaid, WritePaid
<1>2. ASSUME CompletePayment(i, s) PROVE payment'[<<i, s>>] = "COMPLETED"
  BY <1>2 DEF CompletePayment, WriteTopUp
<1>3. ASSUME EnrollFree(i, s) PROVE payment'[<<i, s>>] = "NOT_REQUIRED"
  BY <1>3 DEF EnrollFree, WriteFree
<1>4. ASSUME NEW next \in EnrollmentStates, UpdateEnrollment(i, s, next) \/ CreateIssued(i, s) \/ RevokeIssued(i, s)
      PROVE  payment' = payment
  BY <1>4 DEF UpdateEnrollment, WriteEnrollment, CreateIssued, WriteIssued, RevokeIssued, WriteRevoked
<1> QED
  BY <1>1, <1>2, <1>3, <1>4 DEF SeatStep, EnrollmentStates

\* An operation on an intake pays nothing and completes no enrollment.
LEMMA IntakeCompletesNobody ==
    ASSUME TypeOK, NEW i \in Intakes, IntakeStep(i), NEW e \in Seats
    PROVE  payment' = payment /\ (enrolled'[e] = "COMPLETED" => enrolled[e] = "COMPLETED")
<1> USE DEF TypeOK, Seats, seatVars
<1>1. ASSUME NEW next \in IntakeStates, TransitionStatus(i, next)
      PROVE  payment' = payment /\ (enrolled'[e] = "COMPLETED" => enrolled[e] = "COMPLETED")
  BY <1>1 DEF TransitionStatus, WriteTransition, EnrolledAfter
<1>2. ASSUME NEW seats, CreateIntake(i, seats) \/ UpdateSetup(i, seats) PROVE UNCHANGED seatVars
  BY <1>2 DEF CreateIntake, WriteNewIntake, UpdateSetup, WriteSetup
<1>3. ASSUME RemovePermanently(i) PROVE UNCHANGED seatVars
  BY <1>3 DEF RemovePermanently, WriteIntakeRemoved
<1>4. ASSUME NEW next, EditCurriculum(i, next) \/ LessonComesDue(i, next) PROVE UNCHANGED seatVars
  BY <1>4 DEF EditCurriculum, LessonComesDue, WriteCurriculum
<1> QED
  BY <1>1, <1>2, <1>3, <1>4 DEF IntakeStep

LEMMA CompletionStep == IInv /\ CompletionIsPaid /\ [Next]_vars => CompletionIsPaid'
<1> SUFFICES ASSUME IInv, CompletionIsPaid, [Next]_vars, NEW e \in Seats, enrolled'[e] = "COMPLETED"
             PROVE  payment'[e] \in {"COMPLETED", "NOT_REQUIRED"}
  BY DEF CompletionIsPaid
<1>0. TypeOK /\ LedgerMatchesPaymentStatus
  BY DEF IInv
<1>1. ASSUME NEW i \in Intakes, NEW s \in Students, SeatStep(i, s)
      PROVE  payment'[e] \in {"COMPLETED", "NOT_REQUIRED"}
  <2>1. CASE e # <<i, s>>
    BY <1>0, <1>1, <2>1, SeatFrame DEF CompletionIsPaid
  <2>2. CASE e = <<i, s>> /\ enrolled'[e] = enrolled[e]
    BY <1>0, <1>1, <2>2, PaymentMoves DEF CompletionIsPaid
  <2>3. CASE e = <<i, s>> /\ enrolled'[e] # enrolled[e]
    <3>1. enrolled[e] = "ACTIVE" /\ (Free(i) \/ payment[e] = "COMPLETED")
      BY <1>0, <1>1, <2>3, SeatMoves
    <3>2. payment[e] \in {"COMPLETED", "NOT_REQUIRED"}
      BY <1>0, <2>3, <3>1 DEF LedgerMatchesPaymentStatus
    <3> QED
      BY <1>0, <1>1, <2>3, <3>2, PaymentMoves
  <2> QED
    BY <2>1, <2>2, <2>3
<1>2. ASSUME NEW i \in Intakes, IntakeStep(i) PROVE payment'[e] \in {"COMPLETED", "NOT_REQUIRED"}
  BY <1>0, <1>2, IntakeCompletesNobody DEF CompletionIsPaid
<1>3. ASSUME NEW next, MoveCatalog(next) PROVE UNCHANGED <<enrolled, payment>>
  BY <1>3 DEF MoveCatalog, WriteCatalog, seatVars
<1>4. CASE UNCHANGED vars
  BY <1>4 DEF vars, CompletionIsPaid
<1> QED
  BY <1>1, <1>2, <1>3, <1>4 DEF Next, CompletionIsPaid

\* A completed enrollment has nothing left to pay: it was completed with its
\* payment complete or in a free course, and no later step takes a payment back
\* (update and completePayment of the enrollment repository).
THEOREM CompletedMeansPaid == Spec => []CompletionIsPaid
<1>1. Init => CompletionIsPaid
  BY DEF Init, CompletionIsPaid
<1> QED
  BY <1>1, CompletionStep, Invariance, PTL DEF Spec

-----------------------------------------------------------------------------
(* Action properties.                                                        *)

LEMMA FrozenStep ==
    ASSUME TypeOK, [Next]_vars, NEW i \in Intakes, NEW s \in Students,
           enrolled[<<i, s>>] = "COMPLETED" \/ status[i] \in {"COMPLETED", "ARCHIVED"}
    PROVE  enrolled'[<<i, s>>] = enrolled[<<i, s>>]
<1>1. ASSUME NEW j \in Intakes, NEW next \in IntakeStates, TransitionStatus(j, next)
      PROVE  enrolled'[<<i, s>>] = enrolled[<<i, s>>]
  BY <1>1, TransitionMoves, TransitionWrites
<1>2. ASSUME NEW j \in Intakes, NEW t \in Students, SeatStep(j, t)
      PROVE  enrolled'[<<i, s>>] = enrolled[<<i, s>>]
  <2>1. CASE <<j, t>> = <<i, s>>
    BY <1>2, <2>1, SeatMoves DEF Active
  <2>2. CASE <<j, t>> # <<i, s>>
    BY <1>2, <2>2, SeatFrame DEF Seats
  <2> QED
    BY <2>1, <2>2
<1>3. ASSUME NEW next \in [Courses -> CatalogStates], MoveCatalog(next) PROVE UNCHANGED enrolled
  BY <1>3 DEF MoveCatalog, WriteCatalog, seatVars
<1>4. ASSUME NEW j \in Intakes, NEW seats \in Capacities \cup {Unlimited},
             CreateIntake(j, seats) \/ UpdateSetup(j, seats)
      PROVE  UNCHANGED enrolled
  BY <1>4 DEF CreateIntake, WriteNewIntake, UpdateSetup, WriteSetup, seatVars
<1>5. ASSUME NEW j \in Intakes, RemovePermanently(j) PROVE UNCHANGED enrolled
  BY <1>5 DEF RemovePermanently, WriteIntakeRemoved, seatVars
<1>6. ASSUME NEW j \in Intakes, NEW next \in CurriculumStates, EditCurriculum(j, next) \/ LessonComesDue(j, next)
      PROVE  UNCHANGED enrolled
  BY <1>6 DEF EditCurriculum, LessonComesDue, WriteCurriculum, seatVars
<1> QED
  BY <1>1, <1>2, <1>3, <1>4, <1>5, <1>6 DEF Next, IntakeStep, vars

\* A completed enrollment never changes, nor any enrollment of a completed or
\* archived intake.
THEOREM HistoryStaysFrozen == Spec => HistoryIsFrozen
<1>1. TypeOK /\ [Next]_vars =>
        [\A i \in Intakes, s \in Students :
            enrolled[<<i, s>>] = "COMPLETED" \/ status[i] \in {"COMPLETED", "ARCHIVED"}
                => enrolled'[<<i, s>>] = enrolled[<<i, s>>]]_vars
  BY FrozenStep
<1> QED
  BY <1>1, TypeCorrect, PTL DEF Spec, HistoryIsFrozen

\* Seats are finite, so they can be counted.
LEMMA SeatsAreCounted ==
    ASSUME NEW i \in Intakes
    PROVE  /\ IsFiniteSet(Learners(i)) /\ Occupied(i) \in Nat
           /\ IsFiniteSet(Learners(i)') /\ Occupied(i)' \in Nat
<1>1. Learners(i) \in SUBSET Students /\ Learners(i)' \in SUBSET Students
  BY DEF Learners
<1> QED
  BY <1>1, CapacityAssumption, FS_Subset, FS_CardinalityType DEF Occupied

\* Unless a cancelled learner returns, the learners of an intake grow only by a
\* paid enrolment, which takes a seat that was free.
LEMMA LearnersStep ==
    ASSUME IInv, Next, NEW i \in Intakes, ~Free(i),
           \A s \in Students : ~(enrolled[<<i, s>>] = "CANCELLED" /\ enrolled'[<<i, s>>] = "ACTIVE")
    PROVE  \/ Learners(i)' \subseteq Learners(i)
           \/ \E s \in Students :
                 /\ Learners(i)' \subseteq Learners(i) \cup {s}
                 /\ UNCHANGED capacity
                 /\ capacity[i] # Unlimited => Occupied(i) < capacity[i]
<1>1. ASSUME NEW j \in Intakes, NEW next \in IntakeStates, TransitionStatus(j, next)
      PROVE  Learners(i)' \subseteq Learners(i)
  BY <1>1, TransitionWrites DEF IInv, Learners
<1>2. ASSUME NEW next \in [Courses -> CatalogStates], MoveCatalog(next) PROVE Learners(i)' = Learners(i)
  BY <1>2 DEF MoveCatalog, WriteCatalog, seatVars, Learners
<1>3. ASSUME NEW j \in Intakes, NEW seats \in Capacities \cup {Unlimited},
             CreateIntake(j, seats) \/ UpdateSetup(j, seats)
      PROVE  Learners(i)' = Learners(i)
  BY <1>3 DEF CreateIntake, WriteNewIntake, UpdateSetup, WriteSetup, seatVars, Learners
<1>4. ASSUME NEW j \in Intakes, RemovePermanently(j) PROVE Learners(i)' = Learners(i)
  BY <1>4 DEF RemovePermanently, WriteIntakeRemoved, seatVars, Learners
<1>5. ASSUME NEW j \in Intakes, NEW next \in CurriculumStates, EditCurriculum(j, next) \/ LessonComesDue(j, next)
      PROVE  Learners(i)' = Learners(i)
  BY <1>5 DEF EditCurriculum, LessonComesDue, WriteCurriculum, seatVars, Learners
<1>6. ASSUME NEW j \in Intakes, NEW s \in Students, SeatStep(j, s)
      PROVE  \/ Learners(i)' \subseteq Learners(i)
             \/ /\ Learners(i)' \subseteq Learners(i) \cup {s}
                /\ UNCHANGED capacity
                /\ capacity[i] # Unlimited => Occupied(i) < capacity[i]
  <2>1. CASE j # i
    BY <1>6, <2>1, SeatFrame DEF IInv, Learners, Seats
  <2>2. CASE j = i
    <3>1. \A t \in Students : t # s => enrolled'[<<i, t>>] = enrolled[<<i, t>>]
      BY <1>6, <2>2, SeatFrame DEF IInv, Seats
    <3>2. Learners(i)' \subseteq Learners(i) \cup {s} /\ UNCHANGED capacity
      BY <1>6, <3>1, SeatFrame DEF IInv, Learners
    <3>3. ASSUME enrolled[<<i, s>>] = "NONE", enrolled'[<<i, s>>] = "ACTIVE"
          PROVE  capacity[i] # Unlimited => Occupied(i) < capacity[i]
      <4>1. ~(CompletePayment(i, s) \/ CreateIssued(i, s) \/ RevokeIssued(i, s))
        BY <3>3 DEF CompletePayment, WriteTopUp, CreateIssued, WriteIssued, RevokeIssued, WriteRevoked
      <4>2. ~EnrollFree(i, s)
        BY DEF EnrollFree, MayEnrollFree
      <4>3. \A next \in EnrollmentStates : ~UpdateEnrollment(i, s, next)
        BY <3>3 DEF UpdateEnrollment, MayUpdateEnrollment, AllowedUpdate, ReadyToUpdate, EnrollmentMoves
      <4>4. \E p \in {"PARTIAL", "COMPLETED"} : CreatePaid(i, s, p)
        BY <1>6, <2>2, <4>1, <4>2, <4>3 DEF SeatStep
      <4> QED
        BY <4>4 DEF CreatePaid, MayCreatePaid
    <3>4. CASE s \in Learners(i)' /\ s \notin Learners(i)
      BY <1>6, <2>2, <3>2, <3>3, <3>4, SeatMoves DEF IInv, Learners
    <3>5. CASE ~(s \in Learners(i)' /\ s \notin Learners(i))
      BY <3>2, <3>5
    <3> QED
      BY <3>4, <3>5
  <2> QED
    BY <2>1, <2>2
<1> QED
  BY <1>1, <1>2, <1>3, <1>4, <1>5, <1>6 DEF Next, IntakeStep

\* What may become of the seat limit while the learners only leave or stay.
LEMMA CapacityStep ==
    ASSUME IInv, Next, NEW i \in Intakes, capacity'[i] # Unlimited,
           capacity[i] = Unlimited \/ Occupied(i) <= capacity[i]
    PROVE  /\ capacity'[i] \in Nat
           /\ Occupied(i) <= capacity'[i]
<1>0. capacity'[i] \in Nat
  <2>1. TypeOK'
    BY TypeStep DEF IInv
  <2> QED
    BY <2>1, CapacityAssumption DEF TypeOK
<1>1. CASE capacity'[i] = capacity[i]
  BY <1>0, <1>1
<1>2. ASSUME NEW seats \in Capacities \cup {Unlimited}, CreateIntake(i, seats)
      PROVE  Occupied(i) <= capacity'[i]
  <2>1. Learners(i) = {}
    BY <1>2 DEF IInv, NoSeatBeforeOpening, CreateIntake, MayCreateIntake, Learners
  <2> QED
    BY <2>1, <1>0, FS_EmptySet DEF Occupied
<1>3. ASSUME NEW seats \in Capacities \cup {Unlimited}, UpdateSetup(i, seats)
      PROVE  Occupied(i) <= capacity'[i]
  BY <1>3 DEF IInv, TypeOK, UpdateSetup, MayUpdateSetup, WriteSetup
<1>4. ~RemovePermanently(i)
  BY DEF IInv, TypeOK, RemovePermanently, WriteIntakeRemoved
<1>5. CASE capacity'[i] # capacity[i]
  <2>1. ~(\E next \in [Courses -> CatalogStates] : MoveCatalog(next))
    BY <1>5 DEF MoveCatalog, WriteCatalog, intakeVars
  <2>2. ~(\E j \in Intakes, s \in Students : SeatStep(j, s))
    BY <1>5, SeatFrame DEF IInv
  <2>3. ~(\E j \in Intakes, next \in IntakeStates : TransitionStatus(j, next))
    BY <1>5 DEF TransitionStatus, WriteTransition
  <2>4. ~(\E j \in Intakes, next \in CurriculumStates : EditCurriculum(j, next) \/ LessonComesDue(j, next))
    BY <1>5 DEF EditCurriculum, LessonComesDue, WriteCurriculum
  <2>5. ASSUME NEW j \in Intakes, NEW seats \in Capacities \cup {Unlimited},
               CreateIntake(j, seats) \/ UpdateSetup(j, seats)
        PROVE  Occupied(i) <= capacity'[i]
    <3>1. j = i
      BY <1>5, <2>5 DEF IInv, TypeOK, CreateIntake, WriteNewIntake, UpdateSetup, WriteSetup
    <3> QED
      BY <1>2, <1>3, <2>5, <3>1
  <2>6. \A j \in Intakes : ~RemovePermanently(j)
    BY <1>4, <1>5 DEF IInv, TypeOK, RemovePermanently, WriteIntakeRemoved
  <2> QED
    BY <1>0, <2>1, <2>2, <2>3, <2>4, <2>5, <2>6 DEF Next, IntakeStep
<1> QED
  BY <1>0, <1>1, <1>5

LEMMA OversoldStep ==
    ASSUME IInv, Next, NEW i \in Intakes, ~Free(i), capacity'[i] # Unlimited,
           Occupied(i)' > capacity'[i], capacity[i] = Unlimited \/ Occupied(i) <= capacity[i]
    PROVE  \E s \in Students : enrolled[<<i, s>>] = "CANCELLED" /\ enrolled'[<<i, s>>] = "ACTIVE"
<1> SUFFICES ASSUME \A s \in Students : ~(enrolled[<<i, s>>] = "CANCELLED" /\ enrolled'[<<i, s>>] = "ACTIVE")
             PROVE  FALSE
  OBVIOUS
<1>1. capacity'[i] \in Nat /\ Occupied(i) <= capacity'[i]
  BY CapacityStep
<1>2. CASE Learners(i)' \subseteq Learners(i)
  <2>1. Occupied(i)' <= Occupied(i)
    BY <1>2, SeatsAreCounted, FS_Subset DEF Occupied
  <2> QED
    BY <1>1, <2>1, SeatsAreCounted
<1>3. ASSUME NEW s \in Students, Learners(i)' \subseteq Learners(i) \cup {s}, UNCHANGED capacity,
             capacity[i] # Unlimited => Occupied(i) < capacity[i]
      PROVE  FALSE
  <2>1. IsFiniteSet(Learners(i) \cup {s}) /\ Cardinality(Learners(i) \cup {s}) <= Occupied(i) + 1
    BY SeatsAreCounted, FS_AddElement DEF Occupied
  <2>2. Occupied(i)' <= Cardinality(Learners(i) \cup {s})
    BY <1>3, <2>1, FS_Subset DEF Occupied
  <2>3. Cardinality(Learners(i) \cup {s}) \in Nat
    BY <2>1, FS_CardinalityType
  <2> QED
    BY <1>1, <1>3, <2>1, <2>2, <2>3, SeatsAreCounted
<1> QED
  BY <1>2, <1>3, LearnersStep

\* A paid intake is oversold only by the return of a cancelled learner.
THEOREM OversellingNeedsReturn == Spec => OversoldOnlyByReturn
<1>1. IInv /\ [Next]_vars =>
        [\A i \in Intakes :
            /\ ~Free(i) /\ capacity'[i] # Unlimited /\ Occupied(i)' > capacity'[i]
            /\ capacity[i] = Unlimited \/ Occupied(i) <= capacity[i]
            => \E s \in Students : enrolled[<<i, s>>] = "CANCELLED" /\ enrolled'[<<i, s>>] = "ACTIVE"]_vars
  BY OversoldStep
<1> QED
  BY <1>1, Invariance, PTL DEF Spec, OversoldOnlyByReturn


-----------------------------------------------------------------------------
(* The core implements CatalogView.                                          *)

\* A transition touches the course of its intake, and only an opening, of a public
\* course, starts the teaching there.
LEMMA TeachingMoves ==
    ASSUME TypeOK, NEW i \in Intakes, NEW next \in IntakeStates, TransitionStatus(i, next)
    PROVE  /\ TaughtCourses' \subseteq Courses
           /\ TaughtCourses' \ {CourseOf[i]} = TaughtCourses \ {CourseOf[i]}
           /\ CourseOf[i] \in TaughtCourses' \ TaughtCourses => catalog[CourseOf[i]] = "PUBLIC"
<1> USE DEF TaughtCourses, Runs, Active
<1>1. \A j \in Intakes : CourseOf[j] # CourseOf[i] => status'[j] = status[j]
  BY TransitionWrites
<1>2. TaughtCourses' \ {CourseOf[i]} = TaughtCourses \ {CourseOf[i]}
  BY <1>1
<1>3. CASE next = "OPEN_ACTIVE"
  BY <1>2, <1>3 DEF TransitionStatus, MayTransition, ReadyToTransition
<1>4. CASE next # "OPEN_ACTIVE"
  <2>1. \A j \in Intakes : status'[j] \in Active => status[j] \in Active
    BY <1>4, TransitionWrites, TransitionMoves
  <2> QED
    BY <1>2, <2>1
<1> QED
  BY <1>3, <1>4

LEMMA ViewStep == TypeOK /\ [Next]_vars => [View!Next]_View!vars
<1> SUFFICES ASSUME TypeOK, [Next]_vars PROVE [View!Next]_View!vars
  OBVIOUS
<1>1. ASSUME NEW next \in [Courses -> CatalogStates], MoveCatalog(next) PROVE View!Next
  <2>1. catalog' = next /\ UNCHANGED TaughtCourses
    BY <1>1 DEF MoveCatalog, WriteCatalog, intakeVars, TaughtCourses
  <2>2. \A c \in TaughtCourses : catalog'[c] = "ARCHIVED" => catalog[c] = "ARCHIVED"
    BY <1>1, <2>1 DEF MoveCatalog, MayMoveCatalog, TaughtCourses
  <2> QED
    BY <2>1, <2>2 DEF View!Next, View!MoveCatalog, View!Looks, CatalogStates
<1>2. ASSUME NEW i \in Intakes, NEW next \in IntakeStates, TransitionStatus(i, next)
      PROVE  [View!Next]_View!vars
  <2> DEFINE c == CourseOf[i]
  <2>1. c \in Courses /\ UNCHANGED catalog
    BY <1>2, TransitionWrites, CatalogAssumption
  <2>2. CASE c \in TaughtCourses' \ TaughtCourses
    BY <1>2, <2>1, <2>2, TeachingMoves DEF View!Next, View!StartTeaching
  <2>3. CASE c \in TaughtCourses \ TaughtCourses'
    BY <1>2, <2>1, <2>3, TeachingMoves DEF View!Next, View!StopTeaching
  <2>4. CASE c \in TaughtCourses <=> c \in TaughtCourses'
    <3>1. TaughtCourses' = TaughtCourses
      BY <1>2, <2>4, TeachingMoves
    <3> QED
      BY <2>1, <3>1 DEF View!vars
  <2> QED
    BY <2>2, <2>3, <2>4
<1>3. ASSUME UNCHANGED catalog, \A i \in Intakes : status'[i] \in Active <=> status[i] \in Active
      PROVE  UNCHANGED View!vars
  BY <1>3 DEF View!vars, TaughtCourses, Runs
<1>4. ASSUME NEW i \in Intakes, IntakeStep(i), ~\E next \in IntakeStates : TransitionStatus(i, next)
      PROVE  /\ UNCHANGED catalog
             /\ \A j \in Intakes : status'[j] \in Active <=> status[j] \in Active
  <2>1. ASSUME NEW seats \in Capacities \cup {Unlimited}, CreateIntake(i, seats)
        PROVE  /\ UNCHANGED catalog /\ status[i] = "NONE"
               /\ status' = [status EXCEPT ![i] = "DRAFT"]
    BY <2>1 DEF CreateIntake, MayCreateIntake, WriteNewIntake, WriteStatus
  <2>2. ASSUME RemovePermanently(i)
        PROVE  /\ UNCHANGED catalog /\ status[i] = "ARCHIVED"
               /\ status' = [status EXCEPT ![i] = "NONE"]
    BY <2>2 DEF RemovePermanently, MayRemoveIntake, WriteIntakeRemoved, WriteStatus
  <2>3. ASSUME NEW seats \in Capacities \cup {Unlimited}, UpdateSetup(i, seats)
        PROVE  UNCHANGED <<catalog, status>>
    BY <2>3 DEF UpdateSetup, WriteSetup
  <2>4. ASSUME NEW next \in CurriculumStates, EditCurriculum(i, next) \/ LessonComesDue(i, next)
        PROVE  UNCHANGED <<catalog, status>>
    BY <2>4 DEF EditCurriculum, LessonComesDue, WriteCurriculum
  <2> QED
    BY <1>4, <2>1, <2>2, <2>3, <2>4 DEF IntakeStep, TypeOK, Active
<1>5. ASSUME NEW i \in Intakes, NEW s \in Students, SeatStep(i, s) PROVE UNCHANGED <<catalog, status>>
  BY <1>5 DEF SeatStep, CreatePaid, WritePaid, CompletePayment, WriteTopUp, EnrollFree, WriteFree,
     UpdateEnrollment, WriteEnrollment, CreateIssued, WriteIssued, RevokeIssued, WriteRevoked, intakeVars
<1>6. CASE UNCHANGED vars
  BY <1>3, <1>6 DEF vars
<1> QED
  BY <1>1, <1>2, <1>3, <1>4, <1>5, <1>6 DEF Next

\* Opening an intake and archiving above it exclude each other, as CatalogView
\* promises to both sides: what CatalogTree does to the catalog and what the intakes
\* do below it fit together, for every set of courses and intakes.
THEOREM CoreImplementsView == Spec => ImplementsCatalogView
<1>1. Init => View!Init
  BY CatalogAssumption, SeedAssumption
     DEF Init, View!Init, View!Looks, CatalogStates, TaughtCourses, Runs, Active
<1> QED
  BY <1>1, ViewStep, TypeCorrect, PTL DEF Spec, ImplementsCatalogView, View!Spec
=============================================================================
