-------------------------- MODULE IntakeEnrollment --------------------------
(***************************************************************************)
(* The enrolment core of the LMS: the rows of intakes, enrollments,        *)
(* payments and certificates, and every endpoint that writes them.  Each   *)
(* action is one committed transaction of a repository; a call refused by  *)
(* the code is a call the model does not take.  LockedEnrollment.tla runs  *)
(* the same operations as lock / check / commit steps of concurrent        *)
(* transactions and implements this module.                                *)
(*                                                                         *)
(* A transaction is a pair of operators: May...(x) is what the repository  *)
(* checks once its locks are held, Write...(x) is what it writes.          *)
(***************************************************************************)
EXTENDS Naturals, FiniteSets

CONSTANTS
    Courses, Intakes, Students,
    CourseOf,          \* the course an intake is a run of (immutable FK)
    FreeCourses,       \* courses of a FREE/EVERGREEN/SELF service; the others are PAID/SEASONAL/ADMIN
    CertifiedCourses,  \* courses created with certificateEnabled
    Capacities,        \* the seat limits an administrator may enter
    Unlimited,         \* capacity NULL
    Seeded             \* evergreen intakes opened by writing their rows, as prisma/seed.js does

ASSUME CatalogAssumption ==
    /\ CourseOf \in [Intakes -> Courses]
    /\ FreeCourses \subseteq Courses
    /\ CertifiedCourses \subseteq Courses

ASSUME CapacityAssumption ==
    /\ Capacities \subseteq Nat \ {0}
    /\ Unlimited \notin Nat
    /\ IsFiniteSet(Students)

ASSUME SeedAssumption ==
    /\ Seeded \subseteq Intakes
    /\ \A i \in Seeded : CourseOf[i] \in FreeCourses
    /\ \A i, j \in Seeded : CourseOf[i] = CourseOf[j] => i = j

VARIABLES
    catalog,     \* per course: is its service/category/course chain public, hidden or archived
    badge,       \* per course: the derived courses.enrollment_status column
    status,      \* per intake: intakes.status, "NONE" when there is no such row
    capacity,    \* per intake: intakes.capacity
    curriculum,  \* per intake: what its live course_sessions rows show to learners
    enrolled,    \* per seat: enrollments.status, "NONE" when there is no such row
    payment,     \* per seat: enrollments.payment_status
    paid,        \* per seat: half prices covered by the payments rows of the enrollment
    issued       \* per seat: number of ISSUED certificates of the enrollment

catalogVars == <<catalog>>
intakeVars == <<badge, status, capacity, curriculum>>
seatVars == <<enrolled, payment, paid, issued>>
vars == <<catalog, badge, status, capacity, curriculum, enrolled, payment, paid, issued>>

Seats == Intakes \X Students

CatalogStates == {"PUBLIC", "HIDDEN", "ARCHIVED"}
Badges == {"COMING_SOON", "REOPENING_SOON", "OPEN"}
IntakeStates == {"NONE", "DRAFT", "OPEN_ACTIVE", "CLOSED_ACTIVE", "COMPLETED", "CANCELLED", "ARCHIVED"}
CurriculumStates == {"EMPTY", "HIDDEN", "PARTIAL", "VISIBLE"}
EnrollmentStates == {"NONE", "ACTIVE", "COMPLETED", "CANCELLED"}
PaymentStates == {"NONE", "NOT_REQUIRED", "PARTIAL", "COMPLETED"}

Active == {"OPEN_ACTIVE", "CLOSED_ACTIVE"}
Terminal == {"COMPLETED", "CANCELLED", "ARCHIVED"}

Free(i) == CourseOf[i] \in FreeCourses
Certified(i) == CourseOf[i] \in CertifiedCourses
Runs(c) == {i \in Intakes : CourseOf[i] = c}

\* A released or due, non-retired lesson exists.
HasVisibleLesson(i) == curriculum[i] \in {"PARTIAL", "VISIBLE"}

\* Students holding a seat: enrollments of the intake that are not CANCELLED.
Learners(i) == {s \in Students : enrolled[<<i, s>>] \in {"ACTIVE", "COMPLETED"}}
Occupied(i) == Cardinality(Learners(i))

TypeOK ==
    /\ catalog \in [Courses -> CatalogStates]
    /\ badge \in [Courses -> Badges]
    /\ status \in [Intakes -> IntakeStates]
    /\ capacity \in [Intakes -> Capacities \cup {Unlimited}]
    /\ curriculum \in [Intakes -> CurriculumStates]
    /\ enrolled \in [Seats -> EnrollmentStates]
    /\ payment \in [Seats -> PaymentStates]
    /\ paid \in [Seats -> Nat]
    /\ issued \in [Seats -> Nat]

-----------------------------------------------------------------------------
(* recomputeCourseEnrollmentStatus, run inside every transaction that adds,  *)
(* removes or moves an intake: the badge of c when the intakes stand at st.  *)

BadgeFor(c, st) ==
    IF \E i \in Runs(c) : st[i] = "OPEN_ACTIVE" THEN "OPEN"
    ELSE IF \E i \in Runs(c) : st[i] # "NONE" THEN "REOPENING_SOON"
    ELSE "COMING_SOON"

\* Mutant: the badge is not recomputed.
WriteStatusOnly(i, st) == status' = st /\ UNCHANGED badge

WriteStatus(i, st) ==
    /\ status' = st
    /\ badge' = [badge EXCEPT ![CourseOf[i]] = BadgeFor(CourseOf[i], st)]

Init ==
    /\ catalog \in [Courses -> CatalogStates]
    /\ \A i \in Seeded : catalog[CourseOf[i]] = "PUBLIC"
    /\ status = [i \in Intakes |-> IF i \in Seeded THEN "OPEN_ACTIVE" ELSE "NONE"]
    /\ badge = [c \in Courses |-> BadgeFor(c, status)]
    /\ capacity = [i \in Intakes |-> Unlimited]
    /\ curriculum = [i \in Intakes |-> IF i \in Seeded THEN "VISIBLE" ELSE "EMPTY"]
    /\ enrolled = [e \in Seats |-> "NONE"]
    /\ payment = [e \in Seats |-> "NONE"]
    /\ paid = [e \in Seats |-> 0]
    /\ issued = [e \in Seats |-> 0]

-----------------------------------------------------------------------------
(* Catalog: publishing, hiding, archiving and restoring a service, category  *)
(* or course, seen from the courses below it.  The only check the three      *)
(* archive operations share is that no active intake would be left behind.   *)

\* Mutant: an intake that is closed for enrolment but still taught does not block archiving.
MayMoveCatalogOpenOnly(next) ==
    \A c \in Courses : next[c] = "ARCHIVED" => \A i \in Runs(c) : status[i] # "OPEN_ACTIVE"

MayMoveCatalog(next) ==
    \A c \in Courses : next[c] = "ARCHIVED" /\ catalog[c] # "ARCHIVED" =>
        \A i \in Runs(c) : status[i] \notin Active

WriteCatalog(next) ==
    /\ catalog' = next
    /\ UNCHANGED <<intakeVars, seatVars>>

MoveCatalog(next) == MayMoveCatalog(next) /\ WriteCatalog(next)

-----------------------------------------------------------------------------
(* Intake lifecycle.                                                         *)

MayCreateIntake(i) ==
    /\ status[i] = "NONE"
    /\ catalog[CourseOf[i]] # "ARCHIVED"
    /\ Free(i) => \A j \in Runs(CourseOf[i]) : status[j] = "NONE"

WriteNewIntake(i, seats) ==
    /\ WriteStatus(i, [status EXCEPT ![i] = "DRAFT"])
    /\ capacity' = [capacity EXCEPT ![i] = seats]
    /\ UNCHANGED <<catalog, curriculum, seatVars>>

CreateIntake(i, seats) == MayCreateIntake(i) /\ WriteNewIntake(i, seats)

MayUpdateSetup(i, seats) ==
    /\ status[i] \notin Terminal \cup {"NONE"}
    /\ seats # Unlimited => Occupied(i) <= seats

WriteSetup(i, seats) ==
    /\ capacity' = [capacity EXCEPT ![i] = seats]
    /\ UNCHANGED <<catalog, badge, status, curriculum, seatVars>>

UpdateSetup(i, seats) == MayUpdateSetup(i, seats) /\ WriteSetup(i, seats)

\* ALLOWED_TRANSITIONS of the intake service.
IntakeMoves ==
    [NONE |-> {}, DRAFT |-> {"OPEN_ACTIVE", "CANCELLED"}, OPEN_ACTIVE |-> {"CLOSED_ACTIVE", "CANCELLED"},
     CLOSED_ACTIVE |-> {"COMPLETED", "CANCELLED"}, COMPLETED |-> {"ARCHIVED"},
     CANCELLED |-> {"ARCHIVED"}, ARCHIVED |-> {}]

\* assertCompletionReady.
CompletionReady(i) ==
    /\ curriculum[i] = "VISIBLE"
    /\ \A s \in Learners(i) :
          /\ enrolled[<<i, s>>] = "COMPLETED"
          /\ Certified(i) => issued[<<i, s>>] > 0

\* What transitionStatus checks under its locks, once the intake still stands
\* where the caller expected it.
ReadyToTransition(i, next) ==
    /\ next = "OPEN_ACTIVE" =>
          /\ catalog[CourseOf[i]] = "PUBLIC"
          /\ Free(i) => HasVisibleLesson(i)
    /\ next = "COMPLETED" => CompletionReady(i)

MayTransition(i, next) == next \in IntakeMoves[status[i]] /\ ReadyToTransition(i, next)

\* Mutant: the sibling that was open is left open.
StatusAfterAlone(i, next) == [status EXCEPT ![i] = next]

\* Opening an intake closes the sibling that was open.
StatusAfter(i, next) ==
    [j \in Intakes |->
        IF j = i THEN next
        ELSE IF next = "OPEN_ACTIVE" /\ CourseOf[j] = CourseOf[i] /\ status[j] = "OPEN_ACTIVE"
             THEN "CLOSED_ACTIVE"
        ELSE status[j]]

\* Mutant: cancelling an intake cancels completed learners too.
EnrolledAfterAll(i, next) ==
    [e \in Seats |-> IF next = "CANCELLED" /\ e[1] = i /\ enrolled[e] # "NONE" THEN "CANCELLED" ELSE enrolled[e]]

\* Mutant: cancelling an intake leaves its enrollments alone.
EnrolledAfterNone(i, next) == enrolled

\* Cancelling an intake cancels its ACTIVE enrollments.
EnrolledAfter(i, next) ==
    [e \in Seats |-> IF next = "CANCELLED" /\ e[1] = i /\ enrolled[e] = "ACTIVE" THEN "CANCELLED" ELSE enrolled[e]]

WriteTransition(i, next) ==
    /\ WriteStatus(i, StatusAfter(i, next))
    /\ enrolled' = EnrolledAfter(i, next)
    /\ UNCHANGED <<catalog, capacity, curriculum, payment, paid, issued>>

TransitionStatus(i, next) == MayTransition(i, next) /\ WriteTransition(i, next)

\* The code also refuses while projects, enrolment requests or retired lessons
\* refer to the intake; those rows are not kept here.
MayRemoveIntake(i) ==
    /\ status[i] = "ARCHIVED"
    /\ curriculum[i] = "EMPTY"
    /\ \A s \in Students : enrolled[<<i, s>>] = "NONE"

WriteIntakeRemoved(i) ==
    /\ WriteStatus(i, [status EXCEPT ![i] = "NONE"])
    /\ capacity' = [capacity EXCEPT ![i] = Unlimited]
    /\ UNCHANGED <<catalog, curriculum, seatVars>>

RemovePermanently(i) == MayRemoveIntake(i) /\ WriteIntakeRemoved(i)

-----------------------------------------------------------------------------
(* Curriculum, as far as enrolment sees it: attach, remove and updateDelivery *)
(* of one course session, and the clock passing a session's availableAt.      *)

AttachMoves == {<<"EMPTY", "HIDDEN">>, <<"VISIBLE", "PARTIAL">>}
RemoveMoves == {<<"HIDDEN", "EMPTY">>, <<"VISIBLE", "EMPTY">>, <<"PARTIAL", "HIDDEN">>, <<"PARTIAL", "VISIBLE">>}
DeliveryMoves == {<<"HIDDEN", "PARTIAL">>, <<"HIDDEN", "VISIBLE">>, <<"PARTIAL", "HIDDEN">>,
                  <<"PARTIAL", "VISIBLE">>, <<"VISIBLE", "PARTIAL">>, <<"VISIBLE", "HIDDEN">>}
DueMoves == {<<"HIDDEN", "PARTIAL">>, <<"HIDDEN", "VISIBLE">>, <<"PARTIAL", "VISIBLE">>}

\* Mutant: only archived intakes are frozen.
EditableUntilArchived(i) == status[i] \notin {"NONE", "ARCHIVED"} /\ catalog[CourseOf[i]] # "ARCHIVED"

\* lockIntake: a terminal or archived intake has a frozen curriculum.
Editable(i) ==
    /\ status[i] \notin Terminal \cup {"NONE"}
    /\ catalog[CourseOf[i]] # "ARCHIVED"

\* Mutant: protectOpenFreeCurriculum is not called.
KeepsNothing(i, next) == TRUE

\* protectOpenFreeCurriculum: an open evergreen intake keeps a visible lesson.
KeepsVisibleLesson(i, next) ==
    status[i] = "OPEN_ACTIVE" /\ Free(i) /\ HasVisibleLesson(i) => next \in {"PARTIAL", "VISIBLE"}

MayEditCurriculum(i, next) ==
    /\ Editable(i)
    /\ \/ <<curriculum[i], next>> \in AttachMoves
       \/ <<curriculum[i], next>> \in RemoveMoves /\ KeepsVisibleLesson(i, next)
       \/ <<curriculum[i], next>> \in DeliveryMoves /\ status[i] \in Active /\ KeepsVisibleLesson(i, next)

WriteCurriculum(i, next) ==
    /\ curriculum' = [curriculum EXCEPT ![i] = next]
    /\ UNCHANGED <<catalog, badge, status, capacity, seatVars>>

EditCurriculum(i, next) == MayEditCurriculum(i, next) /\ WriteCurriculum(i, next)

\* Only an intake that was active can hold a SCHEDULED lesson.
LessonComesDue(i, next) ==
    /\ status[i] \notin {"NONE", "DRAFT"}
    /\ <<curriculum[i], next>> \in DueMoves
    /\ WriteCurriculum(i, next)

-----------------------------------------------------------------------------
(* Enrolment, payment and certificates of one student in one intake.         *)

\* Mutant: occupied > capacity instead of occupied >= capacity refuses the seat.
MayCreatePaidOffByOne(i, s) ==
    /\ status[i] = "OPEN_ACTIVE" /\ catalog[CourseOf[i]] = "PUBLIC" /\ ~Free(i)
    /\ enrolled[<<i, s>>] = "NONE"
    /\ capacity[i] # Unlimited => Occupied(i) <= capacity[i]

MayCreatePaid(i, s) ==
    /\ status[i] = "OPEN_ACTIVE"
    /\ catalog[CourseOf[i]] = "PUBLIC"
    /\ ~Free(i)
    /\ enrolled[<<i, s>>] = "NONE"
    /\ capacity[i] # Unlimited => Occupied(i) < capacity[i]

WritePaid(i, s, p) ==
    /\ enrolled' = [enrolled EXCEPT ![<<i, s>>] = "ACTIVE"]
    /\ payment' = [payment EXCEPT ![<<i, s>>] = p]
    /\ paid' = [paid EXCEPT ![<<i, s>>] = @ + IF p = "COMPLETED" THEN 2 ELSE 1]
    /\ UNCHANGED <<catalog, intakeVars, issued>>

CreatePaid(i, s, p) == MayCreatePaid(i, s) /\ WritePaid(i, s, p)

\* Mutant: a top-up is taken again from a fully paid enrollment.
MayCompletePaymentAgain(i, s) == payment[<<i, s>>] \in {"PARTIAL", "COMPLETED"}

MayCompletePayment(i, s) == payment[<<i, s>>] = "PARTIAL"

WriteTopUp(i, s) ==
    /\ payment' = [payment EXCEPT ![<<i, s>>] = "COMPLETED"]
    /\ paid' = [paid EXCEPT ![<<i, s>>] = @ + 1]
    /\ UNCHANGED <<catalog, intakeVars, enrolled, issued>>

CompletePayment(i, s) == MayCompletePayment(i, s) /\ WriteTopUp(i, s)

\* An existing ACTIVE or COMPLETED free enrollment is returned unchanged.
MayEnrollFree(i, s) ==
    /\ status[i] = "OPEN_ACTIVE"
    /\ catalog[CourseOf[i]] = "PUBLIC"
    /\ Free(i)
    /\ HasVisibleLesson(i)
    /\ enrolled[<<i, s>>] \in {"NONE", "CANCELLED"}

WriteFree(i, s) ==
    /\ enrolled' = [enrolled EXCEPT ![<<i, s>>] = "ACTIVE"]
    /\ payment' = [payment EXCEPT ![<<i, s>>] = "NOT_REQUIRED"]
    /\ UNCHANGED <<catalog, intakeVars, paid, issued>>

EnrollFree(i, s) == MayEnrollFree(i, s) /\ WriteFree(i, s)

\* ENROLLMENT_STATUS_TRANSITIONS.
EnrollmentMoves ==
    [NONE |-> {}, ACTIVE |-> {"COMPLETED", "CANCELLED"}, COMPLETED |-> {}, CANCELLED |-> {"ACTIVE"}]

\* What the service checks on the row it read first: a free seat is reactivated
\* by its student only.
AllowedUpdate(i, next, from) ==
    /\ next \in EnrollmentMoves[from]
    /\ from = "CANCELLED" => ~Free(i)

\* What the repository checks under its locks, once the row is still that row.
ReadyToUpdate(i, s, next) ==
    /\ status[i] \notin {"COMPLETED", "ARCHIVED"}
    /\ next = "COMPLETED" =>
          /\ status[i] \in Active
          /\ Free(i) \/ payment[<<i, s>>] = "COMPLETED"
    /\ next = "ACTIVE" => status[i] = "OPEN_ACTIVE"

MayUpdateEnrollment(i, s, next) ==
    AllowedUpdate(i, next, enrolled[<<i, s>>]) /\ ReadyToUpdate(i, s, next)

WriteEnrollment(i, s, next) ==
    /\ enrolled' = [enrolled EXCEPT ![<<i, s>>] = next]
    /\ UNCHANGED <<catalog, intakeVars, payment, paid, issued>>

UpdateEnrollment(i, s, next) == MayUpdateEnrollment(i, s, next) /\ WriteEnrollment(i, s, next)

\* Mutant: the payment check of createIssued is forgotten with the duplicate check.
MayIssueTwice(i, s) == enrolled[<<i, s>>] = "COMPLETED" /\ Certified(i)

MayIssue(i, s) ==
    /\ enrolled[<<i, s>>] = "COMPLETED"
    /\ payment[<<i, s>>] \in {"COMPLETED", "NOT_REQUIRED"}
    /\ Certified(i)
    /\ issued[<<i, s>>] = 0

WriteIssued(i, s) ==
    /\ issued' = [issued EXCEPT ![<<i, s>>] = @ + 1]
    /\ UNCHANGED <<catalog, intakeVars, enrolled, payment, paid>>

CreateIssued(i, s) == MayIssue(i, s) /\ WriteIssued(i, s)

\* Mutant: a certificate that is already revoked is revoked again.
MayRevokeAgain(i, s) == enrolled[<<i, s>>] = "COMPLETED"

MayRevoke(i, s) == issued[<<i, s>>] > 0

WriteRevoked(i, s) ==
    /\ issued' = [issued EXCEPT ![<<i, s>>] = @ - 1]
    /\ UNCHANGED <<catalog, intakeVars, enrolled, payment, paid>>

RevokeIssued(i, s) == MayRevoke(i, s) /\ WriteRevoked(i, s)

-----------------------------------------------------------------------------
IntakeStep(i) ==
    \/ \E seats \in Capacities \cup {Unlimited} : CreateIntake(i, seats) \/ UpdateSetup(i, seats)
    \/ \E next \in IntakeStates : TransitionStatus(i, next)
    \/ RemovePermanently(i)
    \/ \E next \in CurriculumStates : EditCurriculum(i, next) \/ LessonComesDue(i, next)

SeatStep(i, s) ==
    \/ \E p \in {"PARTIAL", "COMPLETED"} : CreatePaid(i, s, p)
    \/ CompletePayment(i, s)
    \/ EnrollFree(i, s)
    \/ \E next \in EnrollmentStates : UpdateEnrollment(i, s, next)
    \/ CreateIssued(i, s)
    \/ RevokeIssued(i, s)

Next ==
    \/ \E next \in [Courses -> CatalogStates] : MoveCatalog(next)
    \/ \E i \in Intakes : IntakeStep(i)
    \/ \E i \in Intakes, s \in Students : SeatStep(i, s)

Spec == Init /\ [][Next]_vars

-----------------------------------------------------------------------------
(* Safety.                                                                   *)

\* A finished intake (completed, cancelled or archived) has no learner still
\* ACTIVE: completion refuses while one is, cancellation cancels them all, and
\* neither enrolment, reactivation nor self-enrolment can revive one afterwards.
NoActiveLearnerInFinishedIntake ==
    \A i \in Intakes, s \in Students :
        status[i] \in Terminal \cup {"NONE"} => enrolled[<<i, s>>] # "ACTIVE"

\* At most one intake of a course takes enrolments at a time, whatever the order
\* in which administrators open, close and create its intakes.
OneOpenIntakePerCourse ==
    \A i, j \in Intakes :
        CourseOf[i] = CourseOf[j] /\ status[i] = "OPEN_ACTIVE" /\ status[j] = "OPEN_ACTIVE" => i = j

\* Nothing is taught under an archived service, category or course: archiving
\* refuses while an intake is active, and opening needs a public course.
NoActiveIntakeUnderArchivedCatalog ==
    \A i \in Intakes : status[i] \in Active => catalog[CourseOf[i]] # "ARCHIVED"

HalvesDue == [NONE |-> 0, NOT_REQUIRED |-> 0, PARTIAL |-> 1, COMPLETED |-> 2]

\* The payments rows of an enrollment add up to what its payment_status claims:
\* nothing for a free seat, one half for PARTIAL, the whole price for COMPLETED.
LedgerMatchesPaymentStatus ==
    \A e \in Seats :
        /\ paid[e] = HalvesDue[payment[e]]
        /\ payment[e] = "NONE" <=> enrolled[e] = "NONE"
        /\ payment[e] = "NOT_REQUIRED" <=> enrolled[e] # "NONE" /\ Free(e[1])

\* A current certificate is the only one of its enrollment, and stands for a
\* completed enrollment of a certified course with nothing left to pay.
CertificateIsEarned ==
    \A e \in Seats : issued[e] > 0 =>
        /\ issued[e] = 1
        /\ enrolled[e] = "COMPLETED"
        /\ payment[e] \in {"COMPLETED", "NOT_REQUIRED"}
        /\ Certified(e[1])

\* An evergreen intake that takes enrolments always shows a learner something.
OpenFreeIntakeShowsLesson ==
    \A i \in Intakes : status[i] = "OPEN_ACTIVE" /\ Free(i) => HasVisibleLesson(i)

\* courses.enrollment_status, a stored copy of what the intakes say, is never stale.
BadgeIsCurrent == \A c \in Courses : badge[c] = BadgeFor(c, status)

\* A completed intake was taught to the end and stays so: every lesson it kept is
\* visible and every learner who did not drop out has completed.
CompletedIntakeIsFinished ==
    \A i \in Intakes : status[i] = "COMPLETED" =>
        /\ curriculum[i] = "VISIBLE"
        /\ \A s \in Students : enrolled[<<i, s>>] # "ACTIVE"

\* A free course has at most one intake, ever.
EvergreenIntakeIsSingle ==
    \A i, j \in Intakes :
        CourseOf[i] = CourseOf[j] /\ Free(i) /\ status[i] # "NONE" /\ status[j] # "NONE" => i = j

-----------------------------------------------------------------------------
(* What no step may do.                                                      *)

\* Learning history is final: a completed enrollment stays completed, and once
\* its intake is completed or archived no enrollment changes at all.
HistoryIsFrozen ==
    [][\A i \in Intakes, s \in Students :
        enrolled[<<i, s>>] = "COMPLETED" \/ status[i] \in {"COMPLETED", "ARCHIVED"}
            => enrolled'[<<i, s>>] = enrolled[<<i, s>>]]_vars

\* Seats are oversold only by bringing a cancelled learner back: a new enrolment
\* and a change of capacity respect the seats already taken.
OversoldOnlyByReturn ==
    [][\A i \in Intakes :
        /\ ~Free(i) /\ capacity'[i] # Unlimited /\ Occupied(i)' > capacity'[i]
        /\ capacity[i] = Unlimited \/ Occupied(i) <= capacity[i]
        => \E s \in Students : enrolled[<<i, s>>] = "CANCELLED" /\ enrolled'[<<i, s>>] = "ACTIVE"]_vars

\* The capacity error of the code "proves that no additional learner can be
\* inserted" and updateSetup keeps capacity at or above the current learners:
\* a paid intake never holds more learners than seats.
SeatsWithinCapacity ==
    \A i \in Intakes : ~Free(i) /\ capacity[i] # Unlimited => Occupied(i) <= capacity[i]

\* The intakes are the other side of CatalogView, which CatalogTree implements from
\* above: teaching starts only in a public course (transitionStatus), and no intake
\* that is active, open or closed, is left under an archived parent.
TaughtCourses == {c \in Courses : \E i \in Runs(c) : status[i] \in Active}

View == INSTANCE CatalogView WITH busy <- TaughtCourses
ImplementsCatalogView == View!Spec

-----------------------------------------------------------------------------
(* Administrators who keep trying: a course that can be published is, lessons *)
(* are attached and released, and an intake that may open is opened.          *)

Publish(c) == MoveCatalog([catalog EXCEPT ![c] = "PUBLIC"])

FairSpec ==
    /\ Spec
    /\ \A c \in Courses : SF_vars(Publish(c))
    /\ \A i \in Intakes :
          /\ SF_vars(\E next \in {"HIDDEN", "VISIBLE"} : EditCurriculum(i, next))
          /\ SF_vars(TransitionStatus(i, "OPEN_ACTIVE"))

\* The error a draft free intake is refused with says what to do about it:
\* "Release at least one session before opening free enrollment."  So a draft
\* intake leaves DRAFT when administrators keep publishing, attaching,
\* releasing and opening.
DraftIsOpened == \A i \in Intakes : status[i] = "DRAFT" ~> status[i] # "DRAFT"
=============================================================================
