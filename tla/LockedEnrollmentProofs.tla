----------------------- MODULE LockedEnrollmentProofs -----------------------
(***************************************************************************)
(* Proofs that the advisory locks are enough, for any number of workers    *)
(* and any catalog: what a transaction has checked under its locks stays   *)
(* true until it commits, every commit is an action of IntakeEnrollment,   *)
(* and the transactions never wait for one another in a circle.            *)
(*                                                                         *)
(* The argument.  No two workers hold the same lock.  Of two transactions  *)
(* that have all theirs, either both work in different services, or one is *)
(* a certificate transaction, which takes no service lock; and when both   *)
(* work on intakes, the intakes differ.  Transactions so related neither   *)
(* read nor write what the other writes.                                   *)
(***************************************************************************)
EXTENDS LockedEnrollment, IntakeEnrollmentProofs, SequenceTheorems

USE CatalogAssumption

-----------------------------------------------------------------------------
(* The fields of a request, and its locks.                                   *)

CertificateOps == {"issue", "revoke"}
CatalogOps == {"service", "category", "course"}
SeatOps == {"createPaid", "enrollFree", "completePayment", "update"} \cup CertificateOps
SetupOps == {"updateSetup", "transition", "removeIntake", "curriculum"}
IntakeOps == SeatOps \cup SetupOps \cup {"createIntake"}

LEMMA RequestFields ==
    ASSUME NEW r \in AllRequests
    PROVE  /\ r.op \in IntakeOps \cup CatalogOps
           /\ r.op \in IntakeOps => r.intake \in Intakes
           /\ r.op \in SeatOps => r.student \in Students
           /\ r.op = "createPaid" => r.pays \in {"PARTIAL", "COMPLETED"}
           /\ r.op = "update" => r.to \in EnrollmentStates
           /\ r.op \in {"createIntake", "updateSetup"} => r.seats \in Capacities \cup {Unlimited}
           /\ r.op = "transition" => r.from \in IntakeStates /\ r.to \in IntakeStates
           /\ r.op = "curriculum" => r.to \in CurriculumStates
           /\ r.op \in CatalogOps => r.to \in CatalogStates
           /\ r.op = "service" => r.service \in Services
           /\ r.op = "category" => r.category \in Categories
           /\ r.op = "course" => r.course \in Courses
BY DEF AllRequests, IntakeOps, CatalogOps, SeatOps, SetupOps, CertificateOps

\* The service under which a call works.
IntakeService(i) == ServiceOf[CategoryOf[CourseOf[i]]]
Service(r) ==
    IF r.op = "service" THEN r.service
    ELSE IF r.op = "category" THEN ServiceOf[r.category]
    ELSE IF r.op = "course" THEN ServiceOf[CategoryOf[r.course]]
    ELSE IntakeService(r.intake)

LEMMA PairAndOne ==
    ASSUME NEW x, NEW y, NEW z
    PROVE  Len(<<x, y>> \o <<z>>) = 3 /\ (<<x, y>> \o <<z>>)[1] = x /\ (<<x, y>> \o <<z>>)[3] = z
<1> DEFINE S == {x, y, z}
<1>1. <<x, y>> \in Seq(S) /\ <<z>> \in Seq(S)
  OBVIOUS
<1> HIDE DEF S
<1> QED
  BY <1>1, ConcatProperties

\* Every call but a certificate's locks its service first.
LEMMA FirstLock ==
    ASSUME NEW r \in AllRequests, r.op \notin CertificateOps
    PROVE  Len(Plan(r)) \in Nat \ {0} /\ Plan(r)[1] = <<"learning-service", Service(r)>>
<1>0. r # NoRequest
  BY LockAssumption
<1>1. CASE r.op \in {"createPaid", "enrollFree"}
  BY <1>0, <1>1 DEF Plan, EnrollPlan, ServiceLock, Service, IntakeService
<1>2. CASE r.op \in {"completePayment", "update"}
  BY <1>0, <1>2 DEF Plan, RowPlan, ServiceLock, Service, IntakeService
<1>3. CASE r.op = "createIntake"
  BY <1>0, <1>3 DEF Plan, NewIntakePlan, ServiceLock, Service, IntakeService
<1>4. CASE r.op = "curriculum"
  BY <1>0, <1>4 DEF Plan, CurriculumPlan, ServiceLock, Service, IntakeService
<1>5. CASE r.op \in {"updateSetup", "transition", "removeIntake"}
  <2>1. Plan(r) = <<ServiceLock(r.intake), CourseLock(CourseOf[r.intake])>> \o <<IntakeLock(r.intake)>>
    BY <1>0, <1>5 DEF Plan, IntakePlan, NewIntakePlan
  <2>2. Len(Plan(r)) = 3 /\ Plan(r)[1] = ServiceLock(r.intake)
    BY <2>1, PairAndOne
  <2> QED
    BY <1>5, <2>2 DEF ServiceLock, Service, IntakeService
<1>6. CASE r.op = "service"
  BY <1>0, <1>6 DEF Plan, ServicePlan, Service
<1>7. CASE r.op = "course"
  BY <1>0, <1>7 DEF Plan, CoursePlan, Service
<1>8. CASE r.op = "category"
  <2>1. r.category \in Categories
    BY <1>8, RequestFields
  <2> DEFINE rest == IF r.to # "ARCHIVED" THEN <<>>
                     ELSE [k \in DOMAIN CoursesIn[r.category] |-> CourseLock(CoursesIn[r.category][k])]
             L == {"course"} \X Courses
  <2>2. rest \in Seq(L)
    <3>1. CoursesIn[r.category] \in Seq(Courses)
      BY <2>1, LockAssumption
    <3> QED
      BY <3>1 DEF CourseLock
  <2>3. Plan(r) = <<<<"learning-service", ServiceOf[r.category]>>, CategoryLock(r.category)>> \o rest
    BY <1>0, <1>8 DEF Plan, CategoryPlan
  <2> HIDE DEF rest
  <2> QED
    BY <1>8, <2>2, <2>3 DEF Service
<1> QED
  BY <1>1, <1>2, <1>3, <1>4, <1>5, <1>6, <1>7, <1>8, RequestFields
     DEF IntakeOps, SeatOps, SetupOps, CatalogOps, CertificateOps

LEMMA CertificateLocks ==
    ASSUME NEW r \in AllRequests, r.op \in CertificateOps
    PROVE  Len(Plan(r)) = 2 /\ Plan(r)[1] = IntakeLock(r.intake) /\ Plan(r)[2] = SeatLock(r)
BY LockAssumption DEF Plan, CertificatePlan, CertificateOps

\* Every call that works on an existing intake or on a seat of it locks the intake.
LEMMA IntakeIsLocked ==
    ASSUME NEW r \in AllRequests, r.op \in SeatOps \cup SetupOps
    PROVE  \E k \in 1..Len(Plan(r)) : Plan(r)[k] = IntakeLock(r.intake)
<1>0. r # NoRequest
  BY LockAssumption
<1>1. CASE r.op \in {"createPaid", "enrollFree"}
  <2>1. Len(Plan(r)) = 3 /\ Plan(r)[2] = IntakeLock(r.intake)
    BY <1>0, <1>1 DEF Plan, EnrollPlan
  <2> QED
    BY <2>1
<1>2. CASE r.op \in {"completePayment", "update"}
  <2>1. Len(Plan(r)) = 3 /\ Plan(r)[2] = IntakeLock(r.intake)
    BY <1>0, <1>2 DEF Plan, RowPlan
  <2> QED
    BY <2>1
<1>3. CASE r.op \in CertificateOps
  BY <1>3, CertificateLocks
<1>4. CASE r.op = "curriculum"
  <2>1. Len(Plan(r)) = 4 /\ Plan(r)[4] = IntakeLock(r.intake)
    BY <1>0, <1>4 DEF Plan, CurriculumPlan
  <2> QED
    BY <2>1
<1>5. CASE r.op \in {"updateSetup", "transition", "removeIntake"}
  <2>1. Plan(r) = <<ServiceLock(r.intake), CourseLock(CourseOf[r.intake])>> \o <<IntakeLock(r.intake)>>
    BY <1>0, <1>5 DEF Plan, IntakePlan, NewIntakePlan
  <2>2. Len(Plan(r)) = 3 /\ Plan(r)[3] = IntakeLock(r.intake)
    BY <2>1, PairAndOne
  <2> QED
    BY <2>2
<1> QED
  BY <1>1, <1>2, <1>3, <1>4, <1>5 DEF SeatOps, SetupOps

-----------------------------------------------------------------------------
(* Transactions that hold all their locks at the same time.                  *)

Exclusion == \A w, v \in Workers : w # v => Held(w) \cap Held(v) = {}

Independent(q, r) ==
    /\ q.op \in CertificateOps \/ r.op \in CertificateOps \/ Service(q) # Service(r)
    /\ q.op \in SeatOps \cup SetupOps /\ r.op \in SeatOps \cup SetupOps => q.intake # r.intake

LEMMA HoldersAreIndependent ==
    ASSUME Exclusion, NEW w \in Workers, NEW v \in Workers, w # v,
           request[w] \in AllRequests, request[v] \in AllRequests,
           got[w] = Len(Plan(request[w])), got[v] = Len(Plan(request[v]))
    PROVE  Independent(request[w], request[v])
<1> DEFINE q == request[w]
           r == request[v]
<1>1. q.op \in CertificateOps \/ r.op \in CertificateOps \/ Service(q) # Service(r)
  <2> SUFFICES ASSUME q.op \notin CertificateOps, r.op \notin CertificateOps, Service(q) = Service(r)
               PROVE  FALSE
    OBVIOUS
  <2>1. <<"learning-service", Service(q)>> \in Held(w)
    BY FirstLock DEF Held
  <2>2. <<"learning-service", Service(r)>> \in Held(v)
    BY FirstLock DEF Held
  <2> QED
    BY <2>1, <2>2 DEF Exclusion
<1>2. ASSUME q.op \in SeatOps \cup SetupOps, r.op \in SeatOps \cup SetupOps, q.intake = r.intake
      PROVE  FALSE
  <2>1. IntakeLock(q.intake) \in Held(w)
    BY <1>2, IntakeIsLocked DEF Held
  <2>2. IntakeLock(r.intake) \in Held(v)
    BY <1>2, IntakeIsLocked DEF Held
  <2> QED
    BY <1>2, <2>1, <2>2 DEF Exclusion
<1> QED
  BY <1>1, <1>2 DEF Independent

-----------------------------------------------------------------------------
(* What a transaction has checked, and the rows its checks have read.        *)

\* Permitted, with the check of the catalog operations as they make it.
Guard(r) ==
    IF r.op \in CatalogOps
    THEN r.to = "ARCHIVED" => \A c \in Scope(r) : \A i \in Runs(c) : status[i] \notin Active
    ELSE Permitted(r)

LEMMA GuardPermits ==
    ASSUME TypeOK, NEW r \in AllRequests, Guard(r) PROVE Permitted(r)
<1>1. CASE r.op \in CatalogOps
  <2>1. ASSUME NEW next \in CatalogAfter(r), NEW c \in Courses, next[c] = "ARCHIVED", catalog[c] # "ARCHIVED"
        PROVE  r.to = "ARCHIVED" /\ c \in Scope(r)
    BY <2>1 DEF CatalogAfter, CourseAfter
  <2>2. ASSUME NEW next \in CatalogAfter(r) PROVE MayMoveCatalog(next)
    BY <1>1, <2>1 DEF Guard, MayMoveCatalog
  <2> QED
    BY <1>1, <2>2 DEF Permitted, CatalogOps
<1>2. CASE r.op \notin CatalogOps
  BY <1>2 DEF Guard
<1> QED
  BY <1>1, <1>2

\* The rows that the checks of r read are what they were.
Same(r) ==
    /\ r.op \notin CertificateOps =>
          \A i \in Intakes : IntakeService(i) = Service(r) =>
              /\ status'[i] = status[i] /\ capacity'[i] = capacity[i] /\ curriculum'[i] = curriculum[i]
              /\ catalog'[CourseOf[i]] = catalog[CourseOf[i]]
              /\ \A s \in Students : enrolled'[<<i, s>>] = enrolled[<<i, s>>]
    /\ r.op \in SeatOps \cup SetupOps =>
          \A s \in Students :
              /\ enrolled'[<<r.intake, s>>] = enrolled[<<r.intake, s>>]
              /\ payment'[<<r.intake, s>>] = payment[<<r.intake, s>>]
              /\ issued'[<<r.intake, s>>] = issued[<<r.intake, s>>]

LEMMA SameOccupied ==
    ASSUME NEW i \in Intakes, \A s \in Students : enrolled'[<<i, s>>] = enrolled[<<i, s>>]
    PROVE  Learners(i)' = Learners(i) /\ Occupied(i)' = Occupied(i)
<1>1. Learners(i)' = Learners(i)
  BY DEF Learners
<1> QED
  BY <1>1 DEF Occupied

LEMMA GuardReads ==
    ASSUME NEW r \in AllRequests, Same(r), Guard(r) PROVE Guard(r)'
<1> USE RequestFields DEF IntakeOps, SeatOps, SetupOps, CertificateOps, CatalogOps, Service
<1>1. CASE r.op \in CatalogOps
  <2>1. \A c \in Scope(r) : c \in Courses /\ ServiceOf[CategoryOf[c]] = Service(r)
    BY <1>1 DEF Scope, Below, BelowService
  <2>2. \A c \in Scope(r) : \A i \in Runs(c) : i \in Intakes /\ IntakeService(i) = Service(r)
    BY <2>1 DEF Runs, IntakeService
  <2>3. \A c \in Scope(r) : \A i \in Runs(c) : status'[i] = status[i]
    BY <1>1, <2>2 DEF Same
  <2>4. Scope(r)' = Scope(r)
    BY DEF Scope, Below, BelowService
  <2> QED
    BY <1>1, <2>3, <2>4 DEF Guard, Runs
<1>2. ASSUME r.op \notin CatalogOps PROVE Permitted(r)'
  <2>0. Permitted(r) /\ r.intake \in Intakes
    BY <1>2 DEF Guard
  <2>1. ASSUME r.op \notin CertificateOps
        PROVE  /\ status'[r.intake] = status[r.intake] /\ capacity'[r.intake] = capacity[r.intake]
               /\ curriculum'[r.intake] = curriculum[r.intake]
               /\ catalog'[CourseOf[r.intake]] = catalog[CourseOf[r.intake]]
               /\ Learners(r.intake)' = Learners(r.intake) /\ Occupied(r.intake)' = Occupied(r.intake)
    BY <1>2, <2>0, <2>1, SameOccupied DEF Same
  <2>2. CASE r.op = "createPaid"
    BY <2>0, <2>1, <2>2 DEF Same, Permitted, MayCreatePaid, Free
  <2>3. CASE r.op = "enrollFree"
    BY <2>0, <2>1, <2>3 DEF Same, Permitted, MayEnrollFree, Free, HasVisibleLesson
  <2>4. CASE r.op = "completePayment"
    BY <2>0, <2>4 DEF Same, Permitted, MayCompletePayment
  <2>5. CASE r.op = "update"
    BY <2>0, <2>1, <2>5 DEF Same, Permitted, MayUpdateEnrollment, AllowedUpdate, ReadyToUpdate, Free, EnrollmentMoves
  <2>6. CASE r.op = "issue"
    BY <2>0, <2>6 DEF Same, Permitted, MayIssue, Certified
  <2>7. CASE r.op = "revoke"
    BY <2>0, <2>7 DEF Same, Permitted, MayRevoke
  <2>8. CASE r.op = "createIntake"
    <3>1. \A j \in Runs(CourseOf[r.intake]) : status'[j] = status[j]
      BY <1>2, <2>8 DEF Same, Runs, IntakeService
    <3> QED
      BY <2>0, <2>1, <2>8, <3>1 DEF Permitted, MayCreateIntake, Free, Runs
  <2>9. CASE r.op = "updateSetup"
    BY <2>0, <2>1, <2>9 DEF Permitted, MayUpdateSetup
  <2>10. CASE r.op = "transition"
    <3>1. \A s \in Learners(r.intake) : enrolled'[<<r.intake, s>>] = enrolled[<<r.intake, s>>]
                                      /\ issued'[<<r.intake, s>>] = issued[<<r.intake, s>>]
      BY <2>10 DEF Same, Learners
    <3>2. CompletionReady(r.intake) => CompletionReady(r.intake)'
      BY <2>1, <2>10, <3>1 DEF CompletionReady, Certified
    <3> QED
      BY <2>0, <2>1, <2>10, <3>2 DEF Permitted, MayTransition, ReadyToTransition, IntakeMoves, Free, HasVisibleLesson
  <2>11. CASE r.op = "removeIntake"
    BY <2>0, <2>1, <2>11 DEF Same, Permitted, MayRemoveIntake
  <2>12. CASE r.op = "curriculum"
    BY <2>0, <2>1, <2>12 DEF Permitted, MayEditCurriculum, Editable, KeepsVisibleLesson, Free, HasVisibleLesson
  <2> QED
    BY <1>2, <2>2, <2>3, <2>4, <2>5, <2>6, <2>7, <2>8, <2>9, <2>10, <2>11, <2>12
<1> QED
  BY <1>1, <1>2 DEF Guard

-----------------------------------------------------------------------------
(* What a commit writes, and that it is nothing an independent call reads.   *)

\* A commit writes intakes and courses of its own service and seats of its own
\* intake; a certificate only the certificates of its enrollment.
LEMMA Footprint ==
    ASSUME TypeOK, NEW r \in AllRequests, Write(r)
    PROVE  /\ \A i \in Intakes : r.op \in CertificateOps \/ IntakeService(i) # Service(r) =>
                 /\ status'[i] = status[i] /\ capacity'[i] = capacity[i] /\ curriculum'[i] = curriculum[i]
                 /\ catalog'[CourseOf[i]] = catalog[CourseOf[i]]
           /\ \A i \in Intakes, s \in Students :
                 /\ r.op \notin SeatOps \cup SetupOps \/ i # r.intake \/ r.op \in CertificateOps =>
                       enrolled'[<<i, s>>] = enrolled[<<i, s>>] /\ payment'[<<i, s>>] = payment[<<i, s>>]
                 /\ r.op \notin CertificateOps \/ i # r.intake => issued'[<<i, s>>] = issued[<<i, s>>]
<1> USE RequestFields DEF IntakeOps, SeatOps, SetupOps, CertificateOps, CatalogOps, TypeOK, Seats
<1>1. CASE r.op = "createPaid" /\ WritePaid(r.intake, r.student, r.pays)
  BY <1>1 DEF WritePaid, intakeVars
<1>2. CASE r.op = "enrollFree" /\ WriteFree(r.intake, r.student)
  BY <1>2 DEF WriteFree, intakeVars
<1>3. CASE r.op = "completePayment" /\ WriteTopUp(r.intake, r.student)
  BY <1>3 DEF WriteTopUp, intakeVars
<1>4. CASE r.op = "update" /\ WriteEnrollment(r.intake, r.student, r.to)
  BY <1>4 DEF WriteEnrollment, intakeVars
<1>5. CASE r.op = "issue" /\ WriteIssued(r.intake, r.student)
  BY <1>5 DEF WriteIssued, intakeVars
<1>6. CASE r.op = "revoke" /\ WriteRevoked(r.intake, r.student)
  BY <1>6 DEF WriteRevoked, intakeVars
<1>7. CASE r.op = "createIntake" /\ WriteNewIntake(r.intake, r.seats)
  BY <1>7 DEF WriteNewIntake, WriteStatus, seatVars, Service
<1>8. CASE r.op = "updateSetup" /\ WriteSetup(r.intake, r.seats)
  BY <1>8 DEF WriteSetup, seatVars, Service
<1>9. CASE r.op = "transition" /\ WriteTransition(r.intake, r.to)
  <2>1. \A i \in Intakes : IntakeService(i) # IntakeService(r.intake) => StatusAfter(r.intake, r.to)[i] = status[i]
    BY <1>9 DEF StatusAfter, IntakeService
  <2>2. \A i \in Intakes, s \in Students : i # r.intake =>
            EnrolledAfter(r.intake, r.to)[<<i, s>>] = enrolled[<<i, s>>]
    BY DEF EnrolledAfter
  <2> QED
    BY <1>9, <2>1, <2>2 DEF WriteTransition, WriteStatus, Service
<1>10. CASE r.op = "removeIntake" /\ WriteIntakeRemoved(r.intake)
  BY <1>10 DEF WriteIntakeRemoved, WriteStatus, seatVars, Service
<1>11. CASE r.op = "curriculum" /\ WriteCurriculum(r.intake, r.to)
  BY <1>11 DEF WriteCurriculum, seatVars, Service
<1>12. CASE r.op \in CatalogOps /\ \E next \in CatalogAfter(r) : WriteCatalog(next)
  <2>1. UNCHANGED <<status, capacity, curriculum, seatVars>> /\ catalog' \in CatalogAfter(r)
    BY <1>12 DEF WriteCatalog, intakeVars
  <2>2. \A c \in Courses : c \notin Scope(r) => catalog'[c] = catalog[c]
    BY <2>1 DEF CatalogAfter
  <2>3. \A i \in Intakes : CourseOf[i] \in Scope(r) => IntakeService(i) = Service(r)
    BY <1>12 DEF Scope, Below, BelowService, Service, IntakeService
  <2> QED
    BY <1>12, <2>1, <2>2, <2>3 DEF seatVars
<1> QED
  BY <1>1, <1>2, <1>3, <1>4, <1>5, <1>6, <1>7, <1>8, <1>9, <1>10, <1>11, <1>12 DEF Write

LEMMA IndependentWrites ==
    ASSUME TypeOK, NEW q \in AllRequests, NEW r \in AllRequests, Independent(q, r), Write(r)
    PROVE  Same(q)
<1> USE RequestFields, Footprint
<1>1. q.op \in SeatOps \cup SetupOps => q.intake \in Intakes
  BY DEF IntakeOps
<1>2. ASSUME q.op \in SeatOps \cup SetupOps, NEW s \in Students
      PROVE  /\ enrolled'[<<q.intake, s>>] = enrolled[<<q.intake, s>>]
             /\ payment'[<<q.intake, s>>] = payment[<<q.intake, s>>]
             /\ issued'[<<q.intake, s>>] = issued[<<q.intake, s>>]
  BY <1>1, <1>2 DEF Independent, SeatOps
<1>3. ASSUME q.op \notin CertificateOps, NEW i \in Intakes, IntakeService(i) = Service(q)
      PROVE  /\ status'[i] = status[i] /\ capacity'[i] = capacity[i] /\ curriculum'[i] = curriculum[i]
             /\ catalog'[CourseOf[i]] = catalog[CourseOf[i]]
             /\ \A s \in Students : enrolled'[<<i, s>>] = enrolled[<<i, s>>]
  <2>1. CASE r.op \in CertificateOps
    BY <1>3, <2>1
  <2>2. CASE r.op \notin CertificateOps
    <3>1. IntakeService(i) # Service(r)
      BY <1>3, <2>2 DEF Independent
    <3>2. r.op \notin SeatOps \cup SetupOps \/ i # r.intake
      BY <3>1 DEF Service, CatalogOps, SeatOps, SetupOps, CertificateOps
    <3> QED
      BY <3>1, <3>2
  <2> QED
    BY <2>1, <2>2
<1> QED
  BY <1>2, <1>3 DEF Same

-----------------------------------------------------------------------------
(* The invariant of the workers.                                             *)

\* What the service decided before the transaction, on the row or status it read.
Decided ==
    \A w \in Workers : request[w] # NoRequest =>
        LET r == request[w]
        IN  /\ r.op = "update" => AllowedUpdate(r.intake, r.to, seen[w][1])
            /\ r.op = "transition" => r.to \in IntakeMoves[r.from]

GuardsHold == \A w \in Workers : checked[w] => Guard(request[w])

\* Mutual exclusion makes GuardsHold inductive, and GuardsHold makes every commit
\* an action of IntakeEnrollment.
LInv == TypeOK /\ LockTypeOK /\ Exclusion /\ Decided /\ GuardsHold

LEMMA RequestsTyped ==
    ASSUME LockTypeOK, NEW w \in Workers
    PROVE  /\ request[w] # NoRequest => request[w] \in AllRequests
           /\ checked[w] => request[w] \in AllRequests /\ got[w] = Len(Plan(request[w]))
           /\ request[w] = NoRequest => got[w] = 0 /\ ~checked[w]
<1>1. request[w] \in Requests \cup {NoRequest}
  BY DEF LockTypeOK
<1>2. request[w] = NoRequest => got[w] \in 0..0
  BY DEF LockTypeOK, Plan
<1> QED
  BY <1>1, <1>2, LockAssumption DEF LockTypeOK

LEMMA PlanLength ==
    ASSUME NEW r \in AllRequests PROVE Len(Plan(r)) \in Nat
BY FirstLock, CertificateLocks

\* The locks of a call do not depend on the state.
LEMMA PlanIsFixed == \A r : Plan(r)' = Plan(r)
BY DEF Plan, EnrollPlan, RowPlan, CertificatePlan, NewIntakePlan, IntakePlan, CurriculumPlan, ServicePlan,
   CategoryPlan, CoursePlan, ServiceLock, CourseLock, CategoryLock, IntakeLock, SeatLock

\* The guards of the workers hold after a step that does not touch what they read.
LEMMA UntouchedGuards ==
    ASSUME LInv, UNCHANGED vars, NEW r \in AllRequests, Guard(r) PROVE Guard(r)'
<1>1. Same(r)
  BY DEF Same, vars
<1> QED
  BY <1>1, GuardReads

LEMMA CommitIsAStep ==
    ASSUME LInv, NEW w \in Workers, Commit(w) PROVE Next
<1> DEFINE r == request[w]
<1>1. r \in AllRequests /\ Permitted(r) /\ Write(r)
  BY RequestsTyped, GuardPermits DEF LInv, GuardsHold, Commit
<1> USE RequestFields DEF IntakeOps, SeatOps, SetupOps, CertificateOps, CatalogOps, Next
<1> HIDE DEF r
<1>2. CASE r.op = "createPaid"
  BY <1>1, <1>2 DEF Permitted, Write, SeatStep, CreatePaid
<1>3. CASE r.op = "enrollFree"
  BY <1>1, <1>3 DEF Permitted, Write, SeatStep, EnrollFree
<1>4. CASE r.op = "completePayment"
  BY <1>1, <1>4 DEF Permitted, Write, SeatStep, CompletePayment
<1>5. CASE r.op = "update"
  BY <1>1, <1>5 DEF Permitted, Write, SeatStep, UpdateEnrollment
<1>6. CASE r.op = "issue"
  BY <1>1, <1>6 DEF Permitted, Write, SeatStep, CreateIssued
<1>7. CASE r.op = "revoke"
  BY <1>1, <1>7 DEF Permitted, Write, SeatStep, RevokeIssued
<1>8. CASE r.op = "createIntake"
  BY <1>1, <1>8 DEF Permitted, Write, IntakeStep, CreateIntake
<1>9. CASE r.op = "updateSetup"
  BY <1>1, <1>9 DEF Permitted, Write, IntakeStep, UpdateSetup
<1>10. CASE r.op = "transition"
  BY <1>1, <1>10 DEF Permitted, Write, IntakeStep, TransitionStatus
<1>11. CASE r.op = "removeIntake"
  BY <1>1, <1>11 DEF Permitted, Write, IntakeStep, RemovePermanently
<1>12. CASE r.op = "curriculum"
  BY <1>1, <1>12 DEF Permitted, Write, IntakeStep, EditCurriculum
<1>13. CASE r.op \in CatalogOps
  BY <1>1, <1>13 DEF Permitted, Write, MoveCatalog, CatalogAfter
<1> QED
  BY <1>1, <1>2, <1>3, <1>4, <1>5, <1>6, <1>7, <1>8, <1>9, <1>10, <1>11, <1>12, <1>13

LEMMA LockedCoreStep == LInv /\ [LockedNext]_lockedVars => [Next]_vars
<1> SUFFICES ASSUME LInv, [LockedNext]_lockedVars PROVE [Next]_vars
  OBVIOUS
<1>1. ASSUME NEW w \in Workers, WorkerStep(w) PROVE [Next]_vars
  BY <1>1, CommitIsAStep DEF WorkerStep, Begin, Acquire, Decide, Check, Refuse, Abort
<1>2. ASSUME NEW s \in Students, SetRole(s) PROVE UNCHANGED vars
  BY <1>2 DEF SetRole
<1>3. ASSUME NEW i \in Intakes, NEW next \in CurriculumStates, Clock(i, next) PROVE Next
  BY <1>3 DEF Clock, Next, IntakeStep
<1>4. CASE UNCHANGED lockedVars
  BY <1>4 DEF lockedVars
<1> QED
  BY <1>1, <1>2, <1>3, <1>4 DEF LockedNext

-----------------------------------------------------------------------------
(* The steps of the workers, one lemma per kind.                             *)

LEMMA LInvInit == LockedInit => LInv
<1> SUFFICES ASSUME LockedInit PROVE LInv
  OBVIOUS
<1>1. TypeOK
  BY TypeInit DEF LockedInit
<1>2. Len(Plan(NoRequest)) = 0
  BY DEF Plan
<1>3. LockTypeOK
  BY <1>2 DEF LockedInit, LockTypeOK, Rows, NoRow, EnrollmentStates, PaymentStates
<1>4. Exclusion /\ Decided /\ GuardsHold
  BY DEF LockedInit, Exclusion, Held, Decided, GuardsHold
<1> QED
  BY <1>1, <1>3, <1>4 DEF LInv

\* A step of worker w that leaves the rows alone and takes no further lock.
LEMMA LInvEnd ==
    ASSUME LInv, NEW w \in Workers, Finish(w), [Next]_vars, role' \in [Students -> {"STUDENT", "ADMIN"}],
           \A v \in Workers : v # w /\ checked[v] => Guard(request[v])'
    PROVE  LInv'
<1> USE DEF LInv, Finish
<1>1. TypeOK'
  BY TypeStep
<1>2. /\ request' \in [Workers -> Requests \cup {NoRequest}] /\ request'[w] = NoRequest
      /\ got'[w] = 0 /\ DOMAIN got' = Workers /\ checked'[w] = FALSE
      /\ \A v \in Workers \ {w} : /\ request'[v] = request[v] /\ got'[v] = got[v]
                                 /\ checked'[v] = checked[v] /\ seen'[v] = seen[v]
  BY DEF LockTypeOK
<1>3. \A r : Plan(r)' = Plan(r)
  BY PlanIsFixed
<1>4. LockTypeOK'
  <2>1. seen' \in [Workers -> Rows] /\ checked' \in [Workers -> BOOLEAN]
    BY DEF LockTypeOK, Rows, NoRow, EnrollmentStates, PaymentStates
  <2>2. ASSUME NEW v \in Workers
        PROVE  /\ got'[v] \in 0..Len(Plan(request'[v]))
               /\ checked'[v] => request'[v] # NoRequest /\ got'[v] = Len(Plan(request'[v]))
    BY <1>2 DEF LockTypeOK, Plan
  <2> QED
    BY <1>2, <1>3, <2>1, <2>2 DEF LockTypeOK
<1>5. \A v \in Workers : Held(v)' \subseteq Held(v)
  BY <1>2 DEF Held
<1>6. Exclusion'
  BY <1>5 DEF Exclusion
<1>7. Decided'
  BY <1>2 DEF Decided
<1>8. GuardsHold'
  BY <1>2 DEF GuardsHold
<1> QED
  BY <1>1, <1>4, <1>6, <1>7, <1>8

LEMMA LInvBegin ==
    ASSUME LInv, NEW w \in Workers, NEW r \in Requests, Begin(w, r) PROVE LInv'
<1> USE DEF LInv, Begin
<1>1. TypeOK'
  BY DEF TypeOK, vars
<1>2. r \in AllRequests /\ r # NoRequest /\ got[w] = 0 /\ ~checked[w] /\ Len(Plan(r)) \in Nat
  BY LockAssumption, RequestsTyped, PlanLength
<1>3. /\ request'[w] = r
      /\ \A v \in Workers \ {w} : request'[v] = request[v] /\ seen'[v] = seen[v]
  BY DEF LockTypeOK
<1>4. LockTypeOK'
  <2>1. request' \in [Workers -> Requests \cup {NoRequest}]
    BY DEF LockTypeOK
  <2>2. seen' \in [Workers -> Rows]
    <3>1. NoRow \in Rows
      BY DEF NoRow, Rows, EnrollmentStates, PaymentStates
    <3>2. r.op = "update" => Row(r.intake, r.student) \in Rows
      BY <1>2, RequestFields DEF Row, Rows, TypeOK, Seats, IntakeOps, SeatOps
    <3> QED
      BY <3>1, <3>2 DEF LockTypeOK
  <2>3. ASSUME NEW v \in Workers
        PROVE  /\ got'[v] \in 0..Len(Plan(request'[v]))
               /\ checked'[v] => request'[v] # NoRequest /\ got'[v] = Len(Plan(request'[v]))
    BY <1>2, <1>3 DEF LockTypeOK
  <2> QED
    BY <2>1, <2>2, <2>3, PlanIsFixed DEF LockTypeOK
<1>5. \A v \in Workers : Held(v)' \subseteq Held(v)
  BY <1>2, <1>3, PlanIsFixed DEF Held
<1>6. Exclusion'
  BY <1>5 DEF Exclusion
<1>7. Decided'
  <2>1. r.op = "update" => AllowedUpdate(r.intake, r.to, Row(r.intake, r.student)[1])
    BY DEF PreCheck, Row
  <2>2. r.op = "transition" => r.to \in IntakeMoves[r.from]
    BY DEF PreCheck
  <2>3. seen'[w] = IF r.op = "update" THEN Row(r.intake, r.student) ELSE NoRow
    BY DEF LockTypeOK
  <2> QED
    BY <1>3, <2>1, <2>2, <2>3 DEF Decided, AllowedUpdate
<1>8. GuardsHold'
  BY <1>2, <1>3, RequestsTyped, UntouchedGuards DEF GuardsHold
<1> QED
  BY <1>1, <1>4, <1>6, <1>7, <1>8

LEMMA LInvAcquire ==
    ASSUME LInv, NEW w \in Workers, Acquire(w) PROVE LInv'
<1> USE DEF LInv, Acquire
<1>1. TypeOK'
  BY DEF TypeOK, vars
<1>2. request[w] \in AllRequests /\ got[w] \in Nat /\ Len(Plan(request[w])) \in Nat
  BY RequestsTyped, PlanLength DEF LockTypeOK, Waiting, Plan
<1>3. got'[w] = got[w] + 1 /\ \A v \in Workers \ {w} : got'[v] = got[v]
  BY DEF LockTypeOK
<1>4. LockTypeOK'
  <2>1. DOMAIN got' = Workers
    BY DEF LockTypeOK
  <2>2. ASSUME NEW v \in Workers
        PROVE  /\ got'[v] \in 0..Len(Plan(request[v]))
               /\ checked[v] => request[v] # NoRequest /\ got'[v] = Len(Plan(request[v]))
    BY <1>2, <1>3 DEF LockTypeOK, Waiting
  <2> QED
    BY <2>1, <2>2, PlanIsFixed DEF LockTypeOK
<1>5. Held(w)' = Held(w) \cup {NextLock(w)} /\ \A v \in Workers \ {w} : Held(v)' = Held(v)
  <2>1. 1..(got[w] + 1) = (1..got[w]) \cup {got[w] + 1}
    BY <1>2
  <2> QED
    BY <1>3, <2>1, PlanIsFixed DEF Held, NextLock
<1>6. Exclusion'
  BY <1>5 DEF Exclusion
<1>7. Decided'
  BY DEF Decided
<1>8. GuardsHold'
  BY RequestsTyped, UntouchedGuards DEF GuardsHold
<1> QED
  BY <1>1, <1>4, <1>6, <1>7, <1>8

LEMMA ReadyIsGuard ==
    ASSUME LInv, NEW w \in Workers, request[w] # NoRequest, Ready(w) PROVE Guard(request[w])
<1> DEFINE r == request[w]
<1>1. r \in AllRequests
  BY RequestsTyped DEF LInv
<1>2. CASE r.op \in CatalogOps
  BY <1>2 DEF Ready, Guard, CatalogOps
<1>3. CASE r.op = "update"
  <2>1. AllowedUpdate(r.intake, r.to, enrolled[<<r.intake, r.student>>])
    BY <1>3 DEF LInv, Decided, Ready, Fresh, Row
  <2> QED
    BY <1>3, <2>1 DEF Ready, Guard, Permitted, MayUpdateEnrollment, CatalogOps
<1>4. CASE r.op = "transition"
  BY <1>4 DEF LInv, Decided, Ready, Fresh, Guard, Permitted, MayTransition, CatalogOps
<1>5. CASE r.op \notin CatalogOps \cup {"update", "transition"}
  BY <1>5 DEF Ready, Guard, Permitted, CatalogOps
<1> QED
  BY <1>2, <1>3, <1>4, <1>5

LEMMA LInvCheck ==
    ASSUME LInv, NEW w \in Workers, Check(w) PROVE LInv'
<1> USE DEF LInv, Check
<1>1. TypeOK'
  BY DEF TypeOK, vars
<1>2. request[w] # NoRequest /\ got[w] = Len(Plan(request[w])) /\ request[w] \in AllRequests
  BY RequestsTyped DEF AtCheck
<1>3. checked' \in [Workers -> BOOLEAN] /\ checked'[w] /\ \A v \in Workers \ {w} : checked'[v] = checked[v]
  BY DEF LockTypeOK
<1>4. LockTypeOK'
  BY <1>2, <1>3, PlanIsFixed DEF LockTypeOK
<1>5. Exclusion'
  BY PlanIsFixed DEF Exclusion, Held
<1>6. Decided'
  BY DEF Decided
<1>7. Guard(request[w])
  BY <1>2, ReadyIsGuard
<1>8. \A v \in Workers : checked'[v] => request[v] \in AllRequests /\ Guard(request[v])
  BY <1>2, <1>3, <1>7, RequestsTyped DEF GuardsHold
<1>9. GuardsHold'
  BY <1>8, UntouchedGuards DEF GuardsHold
<1> QED
  BY <1>1, <1>4, <1>5, <1>6, <1>9

LEMMA LInvRelease ==
    ASSUME LInv, NEW w \in Workers, Refuse(w) \/ Abort(w) PROVE LInv'
<1>1. \A v \in Workers : v # w /\ checked[v] => Guard(request[v])'
  <2>1. ASSUME NEW v \in Workers, v # w, checked[v] PROVE Guard(request[v])'
    <3>1. request[v] \in AllRequests /\ Guard(request[v]) /\ request'[v] = request[v]
      BY <2>1, RequestsTyped DEF LInv, GuardsHold, LockTypeOK, Refuse, Abort, Finish
    <3>2. UNCHANGED vars
      BY DEF Refuse, Abort
    <3> DEFINE r == request[v]
    <3>3. Same(r)
      BY <3>2 DEF Same, vars
    <3> HIDE DEF r
    <3>4. \A q : q = r => Guard(q)'
      BY <3>1, <3>3, GuardReads DEF r
    <3> QED
      BY <3>1, <3>4 DEF r
  <2> QED
    BY <2>1
<1> QED
  BY <1>1, LInvEnd DEF Refuse, Abort, LInv, LockTypeOK

LEMMA LInvCommit ==
    ASSUME LInv, NEW w \in Workers, Commit(w) PROVE LInv'
<1>1. Next
  BY CommitIsAStep
<1>2. ASSUME NEW v \in Workers, v # w, checked[v] PROVE Guard(request[v])'
  <2>1. /\ request[v] \in AllRequests /\ Guard(request[v]) /\ request'[v] = request[v]
        /\ request[w] \in AllRequests /\ Write(request[w])
        /\ got[w] = Len(Plan(request[w])) /\ got[v] = Len(Plan(request[v]))
    BY <1>2, RequestsTyped DEF LInv, GuardsHold, LockTypeOK, Commit, Finish
  <2>2. Independent(request[v], request[w])
    BY <1>2, <2>1, HoldersAreIndependent DEF LInv
  <2> DEFINE r == request[v]
  <2>3. Same(r)
    BY <2>1, <2>2, IndependentWrites DEF LInv
  <2> HIDE DEF r
  <2>4. \A q : q = r => Guard(q)'
    BY <2>1, <2>3, GuardReads DEF r
  <2> QED
    BY <2>1, <2>4 DEF r
<1> QED
  BY <1>1, <1>2, LInvEnd DEF Commit, LInv, LockTypeOK

\* A lesson that comes due shows more than was seen, and completes nothing that
\* was not complete.
LEMMA DueKeepsGuards ==
    ASSUME LInv, NEW i \in Intakes, NEW next \in CurriculumStates, LessonComesDue(i, next),
           NEW r \in AllRequests, Guard(r), ~(r.op = "curriculum" /\ r.intake = i)
    PROVE  Guard(r)'
<1> USE DEF LessonComesDue, WriteCurriculum, seatVars
<1>1. UNCHANGED <<catalog, status, capacity, enrolled, payment, issued>>
  OBVIOUS
<1>2. /\ \A j \in Intakes : j # i => curriculum'[j] = curriculum[j]
      /\ \A j \in Intakes : curriculum[j] \in {"EMPTY", "VISIBLE"} => curriculum'[j] = curriculum[j]
      /\ \A j \in Intakes : curriculum[j] \in {"PARTIAL", "VISIBLE"} => curriculum'[j] \in {"PARTIAL", "VISIBLE"}
  BY DEF LInv, TypeOK, DueMoves
<1>3. \A j \in Intakes : Learners(j)' = Learners(j) /\ Occupied(j)' = Occupied(j)
  BY <1>1 DEF Learners, Occupied
<1> HIDE DEF LessonComesDue, WriteCurriculum, seatVars
<1> USE RequestFields DEF IntakeOps, SeatOps, SetupOps, CertificateOps, CatalogOps
<1>4. CASE r.op \in CatalogOps
  BY <1>1, <1>4 DEF Guard, Scope, Below, BelowService, Runs
<1>5. CASE r.op \in {"createPaid", "enrollFree"}
  BY <1>1, <1>2, <1>3, <1>5 DEF Guard, Permitted, MayCreatePaid, MayEnrollFree, Free, HasVisibleLesson
<1>6. CASE r.op \in {"completePayment", "update", "issue", "revoke"}
  BY <1>1, <1>6 DEF Guard, Permitted, MayCompletePayment, MayUpdateEnrollment, AllowedUpdate, ReadyToUpdate,
     MayIssue, MayRevoke, Free, Certified
<1>7. CASE r.op \in {"createIntake", "updateSetup"}
  BY <1>1, <1>3, <1>7 DEF Guard, Permitted, MayCreateIntake, MayUpdateSetup, Free, Runs
<1>8. CASE r.op = "transition"
  <2>1. CompletionReady(r.intake) => CompletionReady(r.intake)'
    BY <1>1, <1>2, <1>3, <1>8 DEF CompletionReady, Certified
  <2> QED
    BY <1>1, <1>2, <1>8, <2>1 DEF Guard, Permitted, MayTransition, ReadyToTransition, Free, HasVisibleLesson
<1>9. CASE r.op = "removeIntake"
  BY <1>1, <1>2, <1>9 DEF Guard, Permitted, MayRemoveIntake
<1>10. CASE r.op = "curriculum"
  BY <1>1, <1>2, <1>10 DEF Guard, Permitted, MayEditCurriculum, Editable, KeepsVisibleLesson, Free, HasVisibleLesson
<1> QED
  BY <1>4, <1>5, <1>6, <1>7, <1>8, <1>9, <1>10

LEMMA LInvClock ==
    ASSUME LInv, NEW i \in Intakes, NEW next \in CurriculumStates, Clock(i, next) PROVE LInv'
<1> USE DEF LInv
<1>1. TypeOK'
  <2>1. Next
    BY DEF Clock, Next, IntakeStep
  <2> QED
    BY <2>1, TypeStep
<1>2. UNCHANGED <<role, request, seen, got, checked>>
  BY DEF Clock, workerVars
<1>3. LockTypeOK'
  BY <1>2, PlanIsFixed DEF LockTypeOK
<1>6. Exclusion'
  BY <1>2, PlanIsFixed DEF Exclusion, Held
<1>7. Decided'
  BY <1>2 DEF Decided, AllowedUpdate, Free
<1>4. ASSUME NEW w \in Workers, checked[w] PROVE Guard(request[w])'
  <2>1. request[w] \in AllRequests /\ Guard(request[w])
    BY <1>4, RequestsTyped DEF GuardsHold
  <2> DEFINE r == request[w]
  <2>2. ~(r.op = "curriculum" /\ r.intake = i) /\ LessonComesDue(i, next)
    BY <1>4 DEF Clock
  <2> HIDE DEF r
  <2>3. \A q : q = r => Guard(q)'
    BY <2>1, <2>2, DueKeepsGuards DEF r
  <2> QED
    BY <1>2, <2>3 DEF r
<1>5. GuardsHold'
  BY <1>2, <1>4 DEF GuardsHold
<1> QED
  BY <1>1, <1>3, <1>5, <1>6, <1>7

LEMMA LInvIdle ==
    ASSUME LInv, UNCHANGED <<vars, workerVars>>, role' \in [Students -> {"STUDENT", "ADMIN"}] PROVE LInv'
<1> USE DEF LInv, workerVars
<1>1. TypeOK'
  BY DEF TypeOK, vars
<1>2. LockTypeOK'
  BY PlanIsFixed DEF LockTypeOK
<1>4. Exclusion'
  BY PlanIsFixed DEF Exclusion, Held
<1>5. Decided'
  BY DEF Decided, vars
<1>3. GuardsHold'
  BY RequestsTyped, UntouchedGuards DEF GuardsHold
<1> QED
  BY <1>1, <1>2, <1>3, <1>4, <1>5

LEMMA LInvStep == LInv /\ [LockedNext]_lockedVars => LInv'
<1> SUFFICES ASSUME LInv, [LockedNext]_lockedVars PROVE LInv'
  OBVIOUS
<1>1. ASSUME NEW w \in Workers, WorkerStep(w) PROVE LInv'
  BY <1>1, LInvBegin, LInvAcquire, LInvCheck, LInvRelease, LInvCommit DEF WorkerStep, Decide
<1>2. ASSUME NEW s \in Students, SetRole(s) PROVE LInv'
  BY <1>2, LInvIdle DEF SetRole, LInv, LockTypeOK
<1>3. CASE UNCHANGED lockedVars
  BY <1>3, LInvIdle DEF lockedVars, LInv, LockTypeOK
<1> QED
  BY <1>1, <1>2, <1>3, LInvClock DEF LockedNext

-----------------------------------------------------------------------------
THEOREM LockedInvariant == LockedSpec => []LInv
BY LInvInit, LInvStep, PTL DEF LockedSpec

\* A worker holds locks of the call it serves only, and checks once it has them all.
THEOREM LockTypes == LockedSpec => []LockTypeOK
<1>1. LInv => LockTypeOK
  BY DEF LInv
<1> QED
  BY <1>1, LockedInvariant, PTL

\* Between the checks of a transaction and its commit, nothing another transaction
\* or the clock does can make what it has checked false: the keys each call passes
\* to acquireTransactionLock (transactionLock.repository.js:8) cover its decision.
THEOREM GuardsSurvive == LockedSpec => []GuardHoldsUntilCommit
<1>1. LInv => GuardHoldsUntilCommit
  BY GuardPermits, RequestsTyped DEF LInv, GuardsHold, GuardHoldsUntilCommit
<1> QED
  BY <1>1, LockedInvariant, PTL

\* Concurrent calls behave as if each ran alone at the moment it commits: the
\* workers implement IntakeEnrollment.
THEOREM LocksAreEnough == LockedSpec => ImplementsIntakeEnrollment
<1>1. LockedInit => Init
  BY DEF LockedInit
<1>2. LInv /\ [LockedNext]_lockedVars => [Next]_vars
  BY LockedCoreStep
<1> QED
  BY <1>1, <1>2, LockedInvariant, PTL DEF LockedSpec, ImplementsIntakeEnrollment, Spec

\* So the invariant of IntakeEnrollment holds of the interleaved transactions.
THEOREM LockedKeepsTheCore == LockedSpec => []IInv
BY LocksAreEnough, Invariance, PTL DEF ImplementsIntakeEnrollment
-----------------------------------------------------------------------------
(* Waiting in a circle.  A certificate waits for nobody once it holds its    *)
(* intake, and two other calls that hold a lock work under different         *)
(* services, so neither waits for the other: no chain of waiting workers has *)
(* three links.                                                              *)

\* The service under which a lock lies.
LockService(l) ==
    IF l[1] = "learning-service" THEN l[2]
    ELSE IF l[1] = "catalog-category" THEN ServiceOf[l[2]]
    ELSE IF l[1] = "course" THEN ServiceOf[CategoryOf[l[2]]]
    ELSE IF l[1] \in {"intake", "intake-enrollment"} THEN IntakeService(l[2])
    ELSE IntakeService(l[2][1])

LEMMA PairAndOneAt ==
    ASSUME NEW x, NEW y, NEW z, NEW k \in 1..3
    PROVE  (<<x, y>> \o <<z>>)[k] = <<x, y, z>>[k]
<1> DEFINE S == {x, y, z}
<1>1. <<x, y>> \in Seq(S) /\ <<z>> \in Seq(S)
  OBVIOUS
<1> HIDE DEF S
<1> QED
  BY <1>1, ConcatProperties

\* A category's plan after its first two locks.
LEMMA CategoryLocks ==
    ASSUME NEW r \in AllRequests, r.op = "category", NEW k \in 1..Len(Plan(r))
    PROVE  \/ Plan(r)[k] = <<"learning-service", ServiceOf[r.category]>>
           \/ Plan(r)[k] = CategoryLock(r.category)
           \/ \E c \in Courses : CategoryOf[c] = r.category /\ Plan(r)[k] = CourseLock(c)
<1>1. r.category \in Categories /\ r # NoRequest
  BY RequestFields, LockAssumption
<1> DEFINE cs == CoursesIn[r.category]
           rest == IF r.to # "ARCHIVED" THEN <<>> ELSE [j \in DOMAIN cs |-> CourseLock(cs[j])]
           front == <<<<"learning-service", ServiceOf[r.category]>>, CategoryLock(r.category)>>
           L == {<<"learning-service", ServiceOf[r.category]>>, CategoryLock(r.category)} \cup {CourseLock(c) : c \in Courses}
<1>2. Plan(r) = front \o rest
  BY <1>1 DEF Plan, CategoryPlan
<1>3. cs \in Seq(Courses)
  BY <1>1, LockAssumption
<1>4. \A j \in DOMAIN cs : cs[j] \in Courses /\ CategoryOf[cs[j]] = r.category
  <2>1. {cs[j] : j \in DOMAIN cs} = {c \in Courses : CategoryOf[c] = r.category}
    BY <1>1, LockAssumption
  <2> QED
    BY <2>1
<1>5. rest \in Seq(L) /\ \A j \in 1..Len(rest) : j \in DOMAIN cs /\ rest[j] = CourseLock(cs[j])
  BY <1>3, <1>4
<1>6. front \in Seq(L) /\ Len(front) = 2
  OBVIOUS
<1>7. /\ Len(front \o rest) = 2 + Len(rest) /\ Len(rest) \in Nat
      /\ \A j \in 1..2 + Len(rest) : (front \o rest)[j] = IF j <= 2 THEN front[j] ELSE rest[j - 2]
  <2> HIDE DEF front, rest, L
  <2>1. Len(front \o rest) = Len(front) + Len(rest) /\ Len(rest) \in Nat
    BY <1>5, <1>6, ConcatProperties, LenProperties
  <2>2. \A j \in 1..Len(front) + Len(rest) :
           (front \o rest)[j] = IF j <= Len(front) THEN front[j] ELSE rest[j - Len(front)]
    BY <1>5, <1>6, ConcatProperties
  <2> QED
    BY <1>6, <2>1, <2>2
<1>8. CASE k <= 2
  <2>1. Plan(r)[k] = front[k]
    BY <1>2, <1>5, <1>7, <1>8
  <2> QED
    BY <1>8, <2>1
<1>9. CASE k > 2
  <2>1. k - 2 \in 1..Len(rest) /\ Plan(r)[k] = rest[k - 2]
    <3> HIDE DEF front, rest, L
    <3> QED
      BY <1>2, <1>5, <1>7, <1>9
  <2> QED
    BY <1>4, <1>5, <2>1
<1> QED
  BY <1>8, <1>9

LEMMA LockServiceOf ==
    /\ \A x : LockService(<<"learning-service", x>>) = x
    /\ \A v : LockService(CategoryLock(v)) = ServiceOf[v]
    /\ \A c : LockService(CourseLock(c)) = ServiceOf[CategoryOf[c]]
    /\ \A i : LockService(IntakeLock(i)) = IntakeService(i)
    /\ \A i : LockService(<<"intake-enrollment", i>>) = IntakeService(i)
    /\ \A i, s : LockService(<<"enrollment", <<i, s>>>>) = IntakeService(i)
BY DEF LockService, CategoryLock, CourseLock, IntakeLock

\* The locks of a call that is not a certificate's lie under its service.
LEMMA PlanService ==
    ASSUME NEW r \in AllRequests, r.op \notin CertificateOps, NEW k \in 1..Len(Plan(r))
    PROVE  LockService(Plan(r)[k]) = Service(r)
<1>0. r # NoRequest
  BY LockAssumption
<1> USE LockServiceOf DEF Service, IntakeService, ServiceLock, SeatLock
<1>1. CASE r.op \in {"createPaid", "enrollFree"}
  <2>1. Plan(r) = EnrollPlan(r)
    BY <1>0, <1>1 DEF Plan
  <2>2. k \in {1, 2, 3}
    BY <2>1 DEF EnrollPlan
  <2> QED
    BY <1>1, <2>1, <2>2 DEF EnrollPlan
<1>2. CASE r.op \in {"completePayment", "update"}
  <2>1. Plan(r) = RowPlan(r)
    BY <1>0, <1>2 DEF Plan
  <2>2. k \in {1, 2, 3}
    BY <2>1 DEF RowPlan
  <2> QED
    BY <1>2, <2>1, <2>2 DEF RowPlan
<1>3. CASE r.op = "createIntake"
  <2>1. Plan(r) = NewIntakePlan(r)
    BY <1>0, <1>3 DEF Plan
  <2>2. k \in {1, 2}
    BY <2>1 DEF NewIntakePlan
  <2> QED
    BY <1>3, <2>1, <2>2 DEF NewIntakePlan
<1>4. CASE r.op = "curriculum"
  <2>1. Plan(r) = CurriculumPlan(r)
    BY <1>0, <1>4 DEF Plan
  <2>2. k \in {1, 2, 3, 4}
    BY <2>1 DEF CurriculumPlan
  <2> QED
    BY <1>4, <2>1, <2>2 DEF CurriculumPlan
<1>5. CASE r.op \in {"updateSetup", "transition", "removeIntake"}
  <2> DEFINE x == ServiceLock(r.intake)
             y == CourseLock(CourseOf[r.intake])
             z == IntakeLock(r.intake)
  <2>1. Plan(r) = <<x, y>> \o <<z>>
    BY <1>0, <1>5 DEF Plan, IntakePlan, NewIntakePlan
  <2>2. k \in 1..3 /\ Plan(r)[k] = <<x, y, z>>[k]
    <3> HIDE DEF x, y, z
    <3> QED
      BY <2>1, PairAndOne, PairAndOneAt
  <2> QED
    BY <1>5, <2>2
<1>6. CASE r.op = "service"
  <2>1. Plan(r) = ServicePlan(r)
    BY <1>0, <1>6 DEF Plan
  <2> QED
    BY <1>6, <2>1 DEF ServicePlan
<1>7. CASE r.op = "course"
  <2>1. Plan(r) = CoursePlan(r)
    BY <1>0, <1>7 DEF Plan
  <2> QED
    BY <1>7, <2>1 DEF CoursePlan
<1>8. CASE r.op = "category"
  <2>1. Service(r) = ServiceOf[r.category]
    BY <1>8
  <2>2. CASE Plan(r)[k] = <<"learning-service", ServiceOf[r.category]>>
    BY <2>1, <2>2
  <2>3. CASE Plan(r)[k] = CategoryLock(r.category)
    BY <2>1, <2>3
  <2>4. ASSUME NEW c \in Courses, CategoryOf[c] = r.category, Plan(r)[k] = CourseLock(c)
        PROVE  LockService(Plan(r)[k]) = Service(r)
    BY <2>1, <2>4
  <2> QED
    BY <1>8, <2>2, <2>3, <2>4, CategoryLocks
<1> QED
  BY <1>1, <1>2, <1>3, <1>4, <1>5, <1>6, <1>7, <1>8, RequestFields
     DEF IntakeOps, SeatOps, SetupOps, CatalogOps, CertificateOps

\* Whoever locks an enrollment has locked its intake before.
LEMMA SeatBehindIntake ==
    ASSUME NEW r \in AllRequests, NEW k \in 1..Len(Plan(r)), NEW i, NEW s,
           Plan(r)[k] = <<"enrollment", <<i, s>>>>
    PROVE  \E j \in 1..k : Plan(r)[j] = IntakeLock(i)
<1>0. r # NoRequest
  BY LockAssumption
<1> USE DEF ServiceLock, IntakeLock, CourseLock, CategoryLock, SeatLock
<1>1. CASE r.op \in {"completePayment", "update"}
  <2>1. Plan(r) = RowPlan(r)
    BY <1>0, <1>1 DEF Plan
  <2>2. k = 3 /\ i = r.intake /\ Plan(r)[2] = IntakeLock(r.intake)
    BY <2>1 DEF RowPlan
  <2> QED
    BY <2>2
<1>2. CASE r.op \in CertificateOps
  <2>1. k = 2 /\ i = r.intake /\ Plan(r)[1] = IntakeLock(r.intake)
    BY <1>2, CertificateLocks
  <2> QED
    BY <2>1
<1>3. CASE r.op \in {"createPaid", "enrollFree"}
  BY <1>0, <1>3 DEF Plan, EnrollPlan
<1>4. CASE r.op = "createIntake"
  BY <1>0, <1>4 DEF Plan, NewIntakePlan
<1>5. CASE r.op = "curriculum"
  BY <1>0, <1>5 DEF Plan, CurriculumPlan
<1>6. CASE r.op \in {"updateSetup", "transition", "removeIntake"}
  <2> DEFINE x == ServiceLock(r.intake)
             y == CourseLock(CourseOf[r.intake])
             z == IntakeLock(r.intake)
  <2>1. Plan(r) = <<x, y>> \o <<z>>
    BY <1>0, <1>6 DEF Plan, IntakePlan, NewIntakePlan
  <2>2. k \in 1..3 /\ Plan(r)[k] = <<x, y, z>>[k]
    <3> HIDE DEF x, y, z
    <3> QED
      BY <2>1, PairAndOne, PairAndOneAt
  <2> QED
    BY <2>2
<1>7. CASE r.op = "service"
  BY <1>0, <1>7 DEF Plan, ServicePlan
<1>8. CASE r.op = "course"
  BY <1>0, <1>8 DEF Plan, CoursePlan
<1>9. CASE r.op = "category"
  BY <1>9, CategoryLocks
<1> QED
  BY <1>1, <1>2, <1>3, <1>4, <1>5, <1>6, <1>7, <1>8, <1>9, RequestFields
     DEF IntakeOps, SeatOps, SetupOps, CatalogOps, CertificateOps

\* A worker that holds a lock serves a call and holds the first lock of its plan.
LEMMA Holder ==
    ASSUME LockTypeOK, NEW v \in Workers, NEW l \in Held(v)
    PROVE  /\ request[v] \in AllRequests /\ got[v] \in 1..Len(Plan(request[v]))
           /\ \E k \in 1..got[v] : Plan(request[v])[k] = l
           /\ Plan(request[v])[1] \in Held(v)
<1>1. request[v] \in AllRequests
  BY RequestsTyped DEF Held
<1>2. Len(Plan(request[v])) \in Nat
  BY <1>1, PlanLength
<1> QED
  BY <1>1, <1>2 DEF Held, LockTypeOK

\* A certificate that holds its intake waits for nobody.
LEMMA CertificateGoesOn ==
    ASSUME LInv, NEW w \in Workers, NEW v \in Workers, w # v, Held(w) # {},
           request[w].op \in CertificateOps
    PROVE  ~WaitsFor(w, v)
<1> USE DEF LInv
<1> SUFFICES ASSUME Waiting(w), NextLock(w) \in Held(v) PROVE FALSE
  BY DEF WaitsFor
<1> DEFINE i == request[w].intake
           s == request[w].student
<1>1. request[w] \in AllRequests /\ got[w] \in 1..Len(Plan(request[w])) /\ IntakeLock(i) \in Held(w)
  BY Holder, CertificateLocks
<1>2. NextLock(w) = <<"enrollment", <<i, s>>>>
  BY <1>1, CertificateLocks DEF Waiting, NextLock, SeatLock
<1>3. PICK k \in 1..got[v] : Plan(request[v])[k] = <<"enrollment", <<i, s>>>>
  BY <1>2, Holder
<1>4. request[v] \in AllRequests /\ got[v] \in 1..Len(Plan(request[v])) /\ Len(Plan(request[v])) \in Nat
  BY Holder, PlanLength
<1>5. \E j \in 1..k : Plan(request[v])[j] = IntakeLock(i)
  <2>1. k \in 1..Len(Plan(request[v]))
    BY <1>3, <1>4
  <2> QED
    BY <1>3, <1>4, <2>1, SeatBehindIntake
<1>6. IntakeLock(i) \in Held(v)
  BY <1>3, <1>4, <1>5 DEF Held
<1> QED
  BY <1>1, <1>6 DEF Exclusion

\* Two other calls that hold a lock work under different services.
LEMMA ServicesDoNotWait ==
    ASSUME LInv, NEW w \in Workers, NEW v \in Workers, w # v, Held(w) # {},
           request[w].op \notin CertificateOps, request[v].op \notin CertificateOps
    PROVE  ~WaitsFor(w, v)
<1> USE DEF LInv
<1> SUFFICES ASSUME Waiting(w), NextLock(w) \in Held(v) PROVE FALSE
  BY DEF WaitsFor
<1>1. /\ request[w] \in AllRequests /\ got[w] \in 1..Len(Plan(request[w]))
      /\ Plan(request[w])[1] \in Held(w) /\ Len(Plan(request[w])) \in Nat
  BY Holder, PlanLength
<1>2. /\ request[v] \in AllRequests /\ got[v] \in 1..Len(Plan(request[v]))
      /\ Plan(request[v])[1] \in Held(v) /\ Len(Plan(request[v])) \in Nat
  BY Holder, PlanLength
<1>3. LockService(NextLock(w)) = Service(request[w])
  <2>1. got[w] + 1 \in 1..Len(Plan(request[w]))
    BY <1>1 DEF Waiting
  <2> QED
    BY <1>1, <2>1, PlanService DEF NextLock
<1>4. LockService(NextLock(w)) = Service(request[v])
  <2>1. PICK k \in 1..got[v] : Plan(request[v])[k] = NextLock(w)
    BY Holder
  <2>2. k \in 1..Len(Plan(request[v]))
    BY <1>2, <2>1
  <2> QED
    BY <1>2, <2>1, <2>2, PlanService
<1> QED
  BY <1>1, <1>2, <1>3, <1>4, FirstLock DEF Exclusion

LEMMA NoCircle == LInv => NoWaitCycle
<1> SUFFICES ASSUME LInv, NEW group \in (SUBSET Workers) \ {{}},
                    \A w \in group : \E v \in group \ {w} : WaitsFor(w, v)
             PROVE  FALSE
  BY DEF NoWaitCycle
<1>1. PICK a \in group : TRUE
  OBVIOUS
<1>2. PICK b \in group \ {a} : WaitsFor(a, b)
  BY <1>1
<1>3. PICK c \in group \ {b} : WaitsFor(b, c)
  BY <1>2
<1>4. PICK d \in group \ {c} : WaitsFor(c, d)
  BY <1>3
<1>5. Held(b) # {} /\ Held(c) # {}
  BY <1>2, <1>3 DEF WaitsFor
<1>6. request[b].op \notin CertificateOps /\ request[c].op \notin CertificateOps
  BY <1>2, <1>3, <1>4, <1>5, CertificateGoesOn
<1> QED
  BY <1>2, <1>3, <1>5, <1>6, ServicesDoNotWait

\* No set of transactions can wait for one another, however many there are: the
\* order in which acquireTransactionLock is called leaves nothing to the database's
\* deadlock detector.
THEOREM NobodyWaitsInACircle == LockedSpec => []NoWaitCycle
BY NoCircle, LockedInvariant, PTL
=============================================================================
