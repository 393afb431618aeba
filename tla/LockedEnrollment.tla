-------------------------- MODULE LockedEnrollment --------------------------
(***************************************************************************)
(* The operations of IntakeEnrollment as the database runs them: each call *)
(* is served by a worker that reads and checks outside any transaction,    *)
(* opens one, takes its advisory locks one by one, reads and checks again  *)
(* under them and commits its writes, which releases the locks.  Other     *)
(* workers run in between.  A call may be refused, and a transaction may   *)
(* be aborted at any moment (statement timeout, transaction timeout,       *)
(* process crash); nothing it did is then seen.                            *)
(*                                                                         *)
(* The module shows which locks are enough: every commit is one action of  *)
(* IntakeEnrollment, and no set of workers can wait for one another.       *)
(***************************************************************************)
EXTENDS IntakeEnrollment, Sequences

CONSTANTS
    Workers, Services, Categories,
    ServiceOf,       \* category -> service
    CategoryOf,      \* course -> category
    CoursesIn,       \* category -> its courses ordered by id
    Requests,        \* the calls that are made, a subset of AllRequests
    NoRequest,
    Promotable       \* the accounts a super admin may promote and demote

AllRequests ==
    [op : {"createPaid"}, intake : Intakes, student : Students, pays : {"PARTIAL", "COMPLETED"}]
    \cup [op : {"enrollFree", "completePayment", "issue", "revoke"}, intake : Intakes, student : Students]
    \cup [op : {"update"}, intake : Intakes, student : Students, to : EnrollmentStates]
    \cup [op : {"createIntake", "updateSetup"}, intake : Intakes, seats : Capacities \cup {Unlimited}]
    \cup [op : {"transition"}, intake : Intakes, from : IntakeStates, to : IntakeStates]
    \cup [op : {"removeIntake"}, intake : Intakes]
    \cup [op : {"curriculum"}, intake : Intakes, to : CurriculumStates]
    \cup [op : {"service"}, service : Services, to : CatalogStates]
    \cup [op : {"category"}, category : Categories, to : CatalogStates]
    \cup [op : {"course"}, course : Courses, to : CatalogStates]

ASSUME LockAssumption ==
    /\ ServiceOf \in [Categories -> Services]
    /\ CategoryOf \in [Courses -> Categories]
    /\ CoursesIn \in [Categories -> Seq(Courses)]
    /\ \A v \in Categories : {CoursesIn[v][k] : k \in DOMAIN CoursesIn[v]} = {c \in Courses : CategoryOf[c] = v}
    /\ Requests \subseteq AllRequests
    /\ NoRequest \notin AllRequests
    /\ Promotable \subseteq Students

VARIABLES
    role,     \* users.role of each student account
    request,  \* per worker: the call it serves, or NoRequest
    seen,     \* per worker: the enrollment row its service read before the transaction
    got,      \* per worker: how many locks of its plan it holds
    checked   \* per worker: it has passed the checks made under the locks

workerVars == <<request, seen, got, checked>>
lockedVars == <<vars, role, workerVars>>

Row(i, s) == <<enrolled[<<i, s>>], payment[<<i, s>>]>>
Rows == EnrollmentStates \X PaymentStates
NoRow == <<"NONE", "NONE">>

Below(v) == {c \in Courses : CategoryOf[c] = v}
BelowService(v) == {c \in Courses : ServiceOf[CategoryOf[c]] = v}

-----------------------------------------------------------------------------
(* The keys a call passes to acquireTransactionLock, in the order of the     *)
(* calls.  An enrollment is the seat it takes.                               *)

ServiceLock(i) == <<"learning-service", ServiceOf[CategoryOf[CourseOf[i]]]>>
CourseLock(c) == <<"course", c>>
CategoryLock(v) == <<"catalog-category", v>>
IntakeLock(i) == <<"intake", i>>
SeatLock(r) == <<"enrollment", <<r.intake, r.student>>>>

\* Mutant: an enrolment locks its intake only.
EnrollPlanShort(r) == <<IntakeLock(r.intake), <<"intake-enrollment", r.intake>>>>

EnrollPlan(r) == <<ServiceLock(r.intake), IntakeLock(r.intake), <<"intake-enrollment", r.intake>>>>

RowPlan(r) == <<ServiceLock(r.intake), IntakeLock(r.intake), SeatLock(r)>>

\* Mutant: a certificate locks its enrollment before the intake.
CertificatePlanReversed(r) == <<SeatLock(r), IntakeLock(r.intake)>>

CertificatePlan(r) == <<IntakeLock(r.intake), SeatLock(r)>>

NewIntakePlan(r) == <<ServiceLock(r.intake), CourseLock(CourseOf[r.intake])>>

IntakePlan(r) == NewIntakePlan(r) \o <<IntakeLock(r.intake)>>

CurriculumPlan(r) ==
    <<ServiceLock(r.intake), CategoryLock(CategoryOf[CourseOf[r.intake]]),
      CourseLock(CourseOf[r.intake]), IntakeLock(r.intake)>>

ServicePlan(r) == <<<<"learning-service", r.service>>>>

\* Archiving a category also locks each of its courses, in the order of their ids.
CategoryPlan(r) ==
    <<<<"learning-service", ServiceOf[r.category]>>, CategoryLock(r.category)>>
    \o IF r.to # "ARCHIVED" THEN <<>>
       ELSE [k \in DOMAIN CoursesIn[r.category] |-> CourseLock(CoursesIn[r.category][k])]

CoursePlan(r) ==
    <<<<"learning-service", ServiceOf[CategoryOf[r.course]]>>,
      CategoryLock(CategoryOf[r.course]), CourseLock(r.course)>>

Plan(r) ==
    IF r = NoRequest THEN <<>>
    ELSE IF r.op \in {"createPaid", "enrollFree"} THEN EnrollPlan(r)
    ELSE IF r.op \in {"completePayment", "update"} THEN RowPlan(r)
    ELSE IF r.op \in {"issue", "revoke"} THEN CertificatePlan(r)
    ELSE IF r.op = "createIntake" THEN NewIntakePlan(r)
    ELSE IF r.op = "curriculum" THEN CurriculumPlan(r)
    ELSE IF r.op = "service" THEN ServicePlan(r)
    ELSE IF r.op = "category" THEN CategoryPlan(r)
    ELSE IF r.op = "course" THEN CoursePlan(r)
    ELSE IntakePlan(r)

Held(w) == {Plan(request[w])[k] : k \in 1..got[w]}

\* The lock w is about to ask for.
Waiting(w) == got[w] < Len(Plan(request[w]))
NextLock(w) == Plan(request[w])[got[w] + 1]

-----------------------------------------------------------------------------
(* Before the transaction: what the service reads and checks.                *)

PreCheck(r) ==
    \/ /\ r.op = "createPaid"
       /\ status[r.intake] = "OPEN_ACTIVE" /\ ~Free(r.intake) /\ role[r.student] = "STUDENT"
    \/ /\ r.op = "enrollFree"
       /\ status[r.intake] = "OPEN_ACTIVE" /\ catalog[CourseOf[r.intake]] = "PUBLIC"
       /\ Free(r.intake) /\ role[r.student] = "STUDENT"
    \/ r.op = "completePayment" /\ MayCompletePayment(r.intake, r.student)
    \/ r.op = "update" /\ AllowedUpdate(r.intake, r.to, enrolled[<<r.intake, r.student>>])
    \/ /\ r.op = "issue" /\ enrolled[<<r.intake, r.student>>] = "COMPLETED"
       /\ Certified(r.intake) /\ issued[<<r.intake, r.student>>] = 0
    \/ r.op = "revoke" /\ enrolled[<<r.intake, r.student>>] # "NONE"
    \/ r.op = "transition" /\ r.to \in IntakeMoves[r.from]
    \/ r.op \in {"updateSetup", "removeIntake", "curriculum"} /\ status[r.intake] # "NONE"
    \/ r.op \in {"createIntake", "service", "category", "course"}

Begin(w, r) ==
    /\ request[w] = NoRequest
    /\ PreCheck(r)
    /\ request' = [request EXCEPT ![w] = r]
    /\ seen' = [seen EXCEPT ![w] = IF r.op = "update" THEN Row(r.intake, r.student) ELSE NoRow]
    /\ UNCHANGED <<vars, role, got, checked>>

\* pg_advisory_xact_lock: waits while another transaction holds the key.
Acquire(w) ==
    /\ Waiting(w)
    /\ \A v \in Workers \ {w} : NextLock(w) \notin Held(v)
    /\ got' = [got EXCEPT ![w] = @ + 1]
    /\ UNCHANGED <<vars, role, request, seen, checked>>

-----------------------------------------------------------------------------
(* Under the locks.                                                          *)

\* Mutant: what was read before the transaction is trusted.
FreshTrusted(w, r) == r.op \in {"update", "transition"}

\* The row or status the decision was made on is still the current one.
Fresh(w, r) ==
    \/ r.op = "update" /\ seen[w] = Row(r.intake, r.student)
    \/ r.op = "transition" /\ status[r.intake] = r.from

Eligible(r) == role[r.student] = "STUDENT"

Scope(r) ==
    IF r.op = "service" THEN BelowService(r.service)
    ELSE IF r.op = "category" THEN Below(r.category)
    ELSE {r.course}

Ready(w) ==
    LET r == request[w]
    IN  \/ r.op = "createPaid" /\ MayCreatePaid(r.intake, r.student) /\ Eligible(r)
        \/ r.op = "enrollFree" /\ MayEnrollFree(r.intake, r.student)
        \/ r.op = "completePayment" /\ MayCompletePayment(r.intake, r.student)
        \/ /\ r.op = "update" /\ Fresh(w, r) /\ ReadyToUpdate(r.intake, r.student, r.to)
           /\ r.to = "ACTIVE" => Eligible(r)
        \/ r.op = "issue" /\ MayIssue(r.intake, r.student)
        \/ r.op = "revoke" /\ MayRevoke(r.intake, r.student)
        \/ r.op = "createIntake" /\ MayCreateIntake(r.intake)
        \/ r.op = "updateSetup" /\ MayUpdateSetup(r.intake, r.seats)
        \/ r.op = "transition" /\ Fresh(w, r) /\ ReadyToTransition(r.intake, r.to)
        \/ r.op = "removeIntake" /\ MayRemoveIntake(r.intake)
        \/ r.op = "curriculum" /\ MayEditCurriculum(r.intake, r.to)
        \/ /\ r.op \in {"service", "category", "course"}
           /\ r.to = "ARCHIVED" => \A c \in Scope(r) : \A i \in Runs(c) : status[i] \notin Active

AtCheck(w) == request[w] # NoRequest /\ got[w] = Len(Plan(request[w])) /\ ~checked[w]

Check(w) ==
    /\ AtCheck(w)
    /\ Ready(w)
    /\ checked' = [checked EXCEPT ![w] = TRUE]
    /\ UNCHANGED <<vars, role, request, seen, got>>

\* The transaction ends: its locks go with it.
Finish(w) ==
    /\ request' = [request EXCEPT ![w] = NoRequest]
    /\ seen' = [seen EXCEPT ![w] = NoRow]
    /\ got' = [got EXCEPT ![w] = 0]
    /\ checked' = [checked EXCEPT ![w] = FALSE]

Refuse(w) ==
    /\ AtCheck(w)
    /\ ~Ready(w)
    /\ Finish(w)
    /\ UNCHANGED <<vars, role>>

Abort(w) ==
    /\ request[w] # NoRequest
    /\ Finish(w)
    /\ UNCHANGED <<vars, role>>

\* What a course in scope shows afterwards.  Below a parent that is published,
\* hidden or restored it stays as it was when its own row, or one between them,
\* is hidden or archived; a course that is not archived is restored to no effect.
CourseAfter(r, was) ==
    IF r.to = "ARCHIVED" THEN {"ARCHIVED"}
    ELSE IF r.op = "course" THEN IF was = "ARCHIVED" THEN {r.to} ELSE {was}
    ELSE {r.to} \cup ({was} \ {"PUBLIC"})

CatalogAfter(r) ==
    {next \in [Courses -> CatalogStates] : \A c \in Courses :
        next[c] \in IF c \in Scope(r) THEN CourseAfter(r, catalog[c]) ELSE {catalog[c]}}

Write(r) ==
    \/ r.op = "createPaid" /\ WritePaid(r.intake, r.student, r.pays)
    \/ r.op = "enrollFree" /\ WriteFree(r.intake, r.student)
    \/ r.op = "completePayment" /\ WriteTopUp(r.intake, r.student)
    \/ r.op = "update" /\ WriteEnrollment(r.intake, r.student, r.to)
    \/ r.op = "issue" /\ WriteIssued(r.intake, r.student)
    \/ r.op = "revoke" /\ WriteRevoked(r.intake, r.student)
    \/ r.op = "createIntake" /\ WriteNewIntake(r.intake, r.seats)
    \/ r.op = "updateSetup" /\ WriteSetup(r.intake, r.seats)
    \/ r.op = "transition" /\ WriteTransition(r.intake, r.to)
    \/ r.op = "removeIntake" /\ WriteIntakeRemoved(r.intake)
    \/ r.op = "curriculum" /\ WriteCurriculum(r.intake, r.to)
    \/ r.op \in {"service", "category", "course"} /\ \E next \in CatalogAfter(r) : WriteCatalog(next)

Commit(w) ==
    /\ checked[w]
    /\ Write(request[w])
    /\ Finish(w)
    /\ UNCHANGED role

-----------------------------------------------------------------------------
(* What takes no lock: promoting and demoting an account, and the clock.     *)

SetRole(s) ==
    /\ s \in Promotable
    /\ role' = [role EXCEPT ![s] = IF @ = "STUDENT" THEN "ADMIN" ELSE "STUDENT"]
    /\ UNCHANGED <<vars, workerVars>>

\* One curriculum edit sees one time: the clock does not pass an availableAt
\* between its checks and its commit.
Clock(i, next) ==
    /\ \A w \in Workers : ~(checked[w] /\ request[w].op = "curriculum" /\ request[w].intake = i)
    /\ LessonComesDue(i, next)
    /\ UNCHANGED <<role, workerVars>>

LockedInit ==
    /\ Init
    /\ role \in [Students -> {"STUDENT", "ADMIN"}]
    /\ \A s \in Students \ Promotable : role[s] = "STUDENT"
    /\ request = [w \in Workers |-> NoRequest]
    /\ seen = [w \in Workers |-> NoRow]
    /\ got = [w \in Workers |-> 0]
    /\ checked = [w \in Workers |-> FALSE]

Decide(w) == Check(w) \/ Refuse(w) \/ Commit(w)

WorkerStep(w) ==
    \/ \E r \in Requests : Begin(w, r)
    \/ Acquire(w)
    \/ Decide(w)
    \/ Abort(w)

LockedNext ==
    \/ \E w \in Workers : WorkerStep(w)
    \/ \E s \in Students : SetRole(s)
    \/ \E i \in Intakes, next \in CurriculumStates : Clock(i, next)

LockedSpec == LockedInit /\ [][LockedNext]_lockedVars

-----------------------------------------------------------------------------
LockTypeOK ==
    /\ role \in [Students -> {"STUDENT", "ADMIN"}]
    /\ request \in [Workers -> Requests \cup {NoRequest}]
    /\ seen \in [Workers -> Rows]
    /\ checked \in [Workers -> BOOLEAN]
    /\ DOMAIN got = Workers
    /\ \A w \in Workers :
          /\ got[w] \in 0..Len(Plan(request[w]))
          /\ checked[w] => request[w] # NoRequest /\ got[w] = Len(Plan(request[w]))

\* The conditions under which IntakeEnrollment allows what r asks for.
Permitted(r) ==
    \/ r.op = "createPaid" /\ MayCreatePaid(r.intake, r.student)
    \/ r.op = "enrollFree" /\ MayEnrollFree(r.intake, r.student)
    \/ r.op = "completePayment" /\ MayCompletePayment(r.intake, r.student)
    \/ r.op = "update" /\ MayUpdateEnrollment(r.intake, r.student, r.to)
    \/ r.op = "issue" /\ MayIssue(r.intake, r.student)
    \/ r.op = "revoke" /\ MayRevoke(r.intake, r.student)
    \/ r.op = "createIntake" /\ MayCreateIntake(r.intake)
    \/ r.op = "updateSetup" /\ MayUpdateSetup(r.intake, r.seats)
    \/ r.op = "transition" /\ MayTransition(r.intake, r.to)
    \/ r.op = "removeIntake" /\ MayRemoveIntake(r.intake)
    \/ r.op = "curriculum" /\ MayEditCurriculum(r.intake, r.to)
    \/ r.op \in {"service", "category", "course"} /\ \A next \in CatalogAfter(r) : MayMoveCatalog(next)

\* Between a transaction's checks and its commit nobody else can make what was
\* checked false: the locks of each call cover everything its decision reads.
GuardHoldsUntilCommit == \A w \in Workers : checked[w] => Permitted(request[w])

WaitsFor(w, v) == Waiting(w) /\ NextLock(w) \in Held(v)

\* The calls never wait for one another in a circle, so no transaction has to be
\* shot by the deadlock detector or by its timeout.
NoWaitCycle ==
    \A group \in (SUBSET Workers) \ {{}} :
        \E w \in group : \A v \in group \ {w} : ~WaitsFor(w, v)

\* Every step of the workers is a step of IntakeEnrollment or leaves its rows
\* alone: concurrent calls behave as if each ran alone at its commit.
ImplementsIntakeEnrollment == Spec

\* "Only verified student accounts can be enrolled": whoever obtains a seat is a
\* student at that moment.
OnlyStudentsTakeSeats ==
    [][\A i \in Intakes, s \in Students :
        enrolled[<<i, s>>] # "ACTIVE" /\ enrolled'[<<i, s>>] = "ACTIVE" => role[s] = "STUDENT"]_lockedVars

-----------------------------------------------------------------------------
(* A worker that can go on does, and a lock that is free again and again is  *)
(* obtained (PostgreSQL queues the waiters of a key).                        *)

FairLockedSpec ==
    /\ LockedSpec
    /\ \A w \in Workers : WF_lockedVars(Decide(w)) /\ SF_lockedVars(Acquire(w))

\* Every call is answered, without counting on a timeout to abort it.
EveryCallEnds == \A w \in Workers : request[w] # NoRequest ~> request[w] = NoRequest
=============================================================================
