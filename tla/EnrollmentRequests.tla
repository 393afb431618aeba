------------------------- MODULE EnrollmentRequests -------------------------
(***************************************************************************)
(* The road to a seat in a paid course: a student files an enrolment       *)
(* request, administrators contact, decline, reopen or convert it.  Filing *)
(* is one transaction; every other call reads the request first and writes *)
(* later, and a conversion is a chain of separate transactions (resolve    *)
(* the open intake, retarget the request, enrol through createPaid, link   *)
(* the enrollment) that other calls interleave with and a crash can cut.   *)
(*                                                                         *)
(* Intakes and enrollments are those of IntakeEnrollment, moved by its own *)
(* actions.                                                                *)
(***************************************************************************)
EXTENDS IntakeEnrollment

CONSTANTS
    Requests,   \* the enrollment_requests rows that may be created
    OwnerOf,    \* request -> the student who files it
    AskedFor,   \* request -> the course it is filed for
    Workers,    \* the server's handlers of administrator calls
    NoSeat, NoIntake, NoCall

ASSUME RequestAssumption ==
    /\ IsFiniteSet(Requests)
    /\ OwnerOf \in [Requests -> Students]
    /\ AskedFor \in [Requests -> Courses]
    /\ NoSeat \notin Seats
    /\ NoIntake \notin Intakes

VARIABLES
    answer,    \* per request: enrollment_requests.status, "NONE" before it is filed
    intakeOf,  \* per request: enrollment_requests.intake_id
    link,      \* per request: enrollment_requests.enrollment_id
    call       \* per worker: the call it is in, what it has read, and its next step

requestVars == <<answer, intakeOf, link>>
allVars == <<vars, requestVars, call>>

Answers == {"NONE", "PENDING", "CONTACTED", "ENROLLED", "DECLINED"}
Open == {"PENDING", "CONTACTED"}

\* ALLOWED_TRANSITIONS of the request service.
AnswerMoves ==
    [NONE |-> {}, PENDING |-> {"CONTACTED", "DECLINED"}, CONTACTED |-> {"DECLINED"},
     DECLINED |-> {"PENDING"}, ENROLLED |-> {}]

SeatOf(r, i) == <<i, OwnerOf[r]>>

StatusCalls == [step : {"check", "write"}, request : Requests, read : Answers, to : Answers]
ConvertCalls == [step : {"resolve", "retarget", "enrol", "link"}, request : Requests, intake : Intakes]

\* The catalog stays public: without that no step below can be taken.
RequestInit ==
    /\ Init
    /\ \A c \in Courses : catalog[c] = "PUBLIC"
    /\ answer = [r \in Requests |-> "NONE"]
    /\ intakeOf = [r \in Requests |-> NoIntake]
    /\ link = [r \in Requests |-> NoSeat]
    /\ call = [w \in Workers |-> NoCall]

-----------------------------------------------------------------------------
(* Filing, under the lock of this student and this course.                   *)

\* Mutant: only PENDING requests count as open.
NoOtherPending(r) ==
    \A q \in Requests : OwnerOf[q] = OwnerOf[r] /\ AskedFor[q] = AskedFor[r] => answer[q] # "PENDING"

NoOtherOpen(r) ==
    \A q \in Requests : OwnerOf[q] = OwnerOf[r] /\ AskedFor[q] = AskedFor[r] => answer[q] \notin Open

Create(r) ==
    /\ answer[r] = "NONE"
    /\ NoOtherOpen(r)
    /\ \E i \in Runs(AskedFor[r]) :
          /\ status[i] = "OPEN_ACTIVE"
          /\ intakeOf' = [intakeOf EXCEPT ![r] = i]
    /\ answer' = [answer EXCEPT ![r] = "PENDING"]
    /\ UNCHANGED <<vars, link, call>>

-----------------------------------------------------------------------------
(* Contacting, declining and reopening: the service reads the row; under the *)
(* request's lock updateStatus checks that it still has that status, and     *)
(* writes.  Converting a request does not take that lock.                    *)

ReadForUpdate(w, r, next) ==
    /\ call[w] = NoCall
    /\ next \in AnswerMoves[answer[r]]
    /\ call' = [call EXCEPT ![w] = [step |-> "check", request |-> r, read |-> answer[r], to |-> next]]
    /\ UNCHANGED <<vars, requestVars>>

Unchanged(w) == answer[call[w].request] = call[w].read

CheckUpdate(w) ==
    /\ call[w] # NoCall /\ call[w].step = "check"
    /\ Unchanged(w)
    /\ \A v \in Workers : ~(call[v] # NoCall /\ call[v].step = "write" /\ call[v].request = call[w].request)
    /\ call' = [call EXCEPT ![w].step = "write"]
    /\ UNCHANGED <<vars, requestVars>>

WriteUpdate(w) ==
    /\ call[w] # NoCall /\ call[w].step = "write"
    /\ answer' = [answer EXCEPT ![call[w].request] = call[w].to]
    /\ call' = [call EXCEPT ![w] = NoCall]
    /\ UNCHANGED <<vars, intakeOf, link>>

-----------------------------------------------------------------------------
(* Converting: enrollFromRequest, one action per transaction.                *)

Step(w, name) == call[w] # NoCall /\ call[w].step = name
Go(w, r, i, name) == call' = [call EXCEPT ![w] = [step |-> name, request |-> r, intake |-> i]]
End(w) == call' = [call EXCEPT ![w] = NoCall]

\* The request and the status of its intake are read together.
ReadForEnroll(w, r) ==
    /\ call[w] = NoCall
    /\ answer[r] \in Open
    /\ Go(w, r, intakeOf[r], IF status[intakeOf[r]] = "OPEN_ACTIVE" THEN "enrol" ELSE "resolve")
    /\ UNCHANGED <<vars, requestVars>>

\* findCurrentOpenIntakeId.
Resolve(w) ==
    /\ Step(w, "resolve")
    /\ \E i \in Runs(AskedFor[call[w].request]) :
          status[i] = "OPEN_ACTIVE" /\ Go(w, call[w].request, i, "retarget")
    /\ UNCHANGED <<vars, requestVars>>

Retarget(w) ==
    /\ Step(w, "retarget")
    /\ intakeOf' = [intakeOf EXCEPT ![call[w].request] = call[w].intake]
    /\ Go(w, call[w].request, call[w].intake, "enrol")
    /\ UNCHANGED <<vars, answer, link>>

\* enrollStudentInCourse: the same createPaid an administrator calls directly.
Enroll(w, p) ==
    /\ Step(w, "enrol")
    /\ CreatePaid(call[w].intake, OwnerOf[call[w].request], p)
    /\ Go(w, call[w].request, call[w].intake, "link")
    /\ UNCHANGED requestVars

\* Mutant: the seat is looked up through the request instead of the enrollment created.
LinkedSeatByRequest(w) == SeatOf(call[w].request, intakeOf[call[w].request])

LinkedSeat(w) == SeatOf(call[w].request, call[w].intake)

\* markEnrolled: no lock, no check but the unique index on enrollment_id.
MarkEnrolled(w) ==
    /\ Step(w, "link")
    /\ \A q \in Requests \ {call[w].request} : link[q] # LinkedSeat(w)
    /\ answer' = [answer EXCEPT ![call[w].request] = "ENROLLED"]
    /\ link' = [link EXCEPT ![call[w].request] = LinkedSeat(w)]
    /\ End(w)
    /\ UNCHANGED <<vars, intakeOf>>

\* A call that is refused at any step, fails or dies with its process leaves
\* behind what it has committed.
GiveUp(w) ==
    /\ call[w] # NoCall
    /\ End(w)
    /\ UNCHANGED <<vars, requestVars>>

-----------------------------------------------------------------------------
(* What else moves the intakes and seats a request depends on.               *)

IntakeMoved ==
    /\ \/ \E i \in Intakes : CreateIntake(i, Unlimited)
       \/ \E i \in Intakes, next \in {"OPEN_ACTIVE", "CLOSED_ACTIVE", "CANCELLED"} : TransitionStatus(i, next)
    /\ UNCHANGED <<requestVars, call>>

SeatMoved ==
    /\ \/ \E i \in Intakes, s \in Students : CreatePaid(i, s, "COMPLETED")
       \/ \E i \in Intakes, s \in Students, next \in {"ACTIVE", "CANCELLED"} : UpdateEnrollment(i, s, next)
    /\ UNCHANGED <<requestVars, call>>

WorkerStep(w) ==
    \/ \E r \in Requests, next \in Answers : ReadForUpdate(w, r, next)
    \/ CheckUpdate(w)
    \/ WriteUpdate(w)
    \/ \E r \in Requests : ReadForEnroll(w, r)
    \/ Resolve(w)
    \/ Retarget(w)
    \/ \E p \in {"PARTIAL", "COMPLETED"} : Enroll(w, p)
    \/ MarkEnrolled(w)
    \/ GiveUp(w)

RequestNext ==
    \/ \E r \in Requests : Create(r)
    \/ \E w \in Workers : WorkerStep(w)
    \/ IntakeMoved
    \/ SeatMoved

RequestSpec == RequestInit /\ [][RequestNext]_allVars

-----------------------------------------------------------------------------
RequestTypeOK ==
    /\ answer \in [Requests -> Answers]
    /\ intakeOf \in [Requests -> Intakes \cup {NoIntake}]
    /\ link \in [Requests -> Seats \cup {NoSeat}]
    /\ call \in [Workers -> StatusCalls \cup ConvertCalls \cup {NoCall}]
    /\ \A r \in Requests : IF answer[r] = "NONE" THEN intakeOf[r] = NoIntake ELSE intakeOf[r] \in Runs(AskedFor[r])

\* An ENROLLED request is backed by a paid enrollment of its own student in the
\* course asked for, and no two requests claim the same enrollment, whatever was
\* retargeted, refused or cut off on the way.
EnrolledRequestHasItsSeat ==
    \A r \in Requests :
        /\ answer[r] = "ENROLLED" => link[r] # NoSeat
        /\ link[r] # NoSeat =>
              /\ link[r][2] = OwnerOf[r] /\ CourseOf[link[r][1]] = AskedFor[r]
              /\ payment[link[r]] \in {"PARTIAL", "COMPLETED"}
              /\ \A q \in Requests : link[q] = link[r] => q = r

\* An administrator's answer to r is being written: checked under the lock of the
\* request, when the row still had the status read.
AnswerInFlight(w, r) == call[w] # NoCall /\ call[w].step = "write" /\ call[w].request = r

Reopened(r) ==
    /\ answer[r] = "DECLINED" /\ answer'[r] = "PENDING"
    /\ \E w \in Workers : AnswerInFlight(w, r) /\ call[w].read = "DECLINED"

\* The conversion that linked r took no lock and came between check and write.
WrittenOverConversion(r) ==
    /\ answer[r] = "ENROLLED"
    /\ \E w \in Workers : /\ AnswerInFlight(w, r)
                           /\ answer'[r] = call[w].to /\ call[w].to \in AnswerMoves[call[w].read]

\* A student who has an open request for a course gets a second one in two ways
\* only, never by filing twice: an administrator reopens one that was declined, or
\* an answer, checked before a conversion of that request ended, is written over
\* its ENROLLED (create, updateStatus, markEnrolled).
SecondOpenOnlyByAnswer ==
    [][\A q, r \in Requests :
        (/\ OwnerOf[q] = OwnerOf[r] /\ AskedFor[q] = AskedFor[r]
         /\ answer[q] \in Open /\ answer[r] \notin Open /\ answer'[r] \in Open)
            => Reopened(r) \/ WrittenOverConversion(r)]_allVars

\* Two administrators who answer the same request follow ALLOWED_TRANSITIONS even
\* when one of them acts on a page that is out of date; only a conversion, which
\* takes no lock, is not covered.
AnswersFollowTheTable ==
    [][\A r \in Requests :
        answer'[r] # answer[r] /\ answer[r] \notin {"NONE", "ENROLLED"} /\ answer'[r] # "ENROLLED"
            => answer'[r] \in AnswerMoves[answer[r]]]_allVars

-----------------------------------------------------------------------------
(* What the code says of requests, and does not keep.                        *)

OpenFor(s, c) == {r \in Requests : OwnerOf[r] = s /\ AskedFor[r] = c /\ answer[r] \in Open}

\* "A student can only have one open (PENDING/CONTACTED) request per course at a time."
OneOpenRequest == \A s \in Students, c \in Courses : Cardinality(OpenFor(s, c)) <= 1

\* "set once converted - permanent audit trail": a link never changes.
LinkIsPermanent ==
    [][\A r \in Requests : link[r] # NoSeat => link'[r] = link[r]]_allVars

\* "ENROLLED is terminal and reached only through the dedicated /enroll endpoint".
EnrolledIsTerminal ==
    [][\A r \in Requests : answer[r] = "ENROLLED" => answer'[r] = "ENROLLED"]_allVars
=============================================================================
