---------------------- MODULE EnrollmentRequestsProofs ----------------------
(***************************************************************************)
(* Proofs about enrolment requests, for every set of requests, students,   *)
(* intakes and administrators' calls: handling requests moves intakes and  *)
(* enrollments only as IntakeEnrollment allows, so what is proved of it    *)
(* carries over, and an enrolled request is backed by its own paid seat.   *)
(***************************************************************************)
EXTENDS EnrollmentRequests, IntakeEnrollmentProofs

USE CatalogAssumption, RequestAssumption

Paid == {"PARTIAL", "COMPLETED"}

\* What a call has read or done is still so when it takes its next step: a filed
\* request stays filed, an intake keeps its course, a paid seat stays paid.
CallsInOrder ==
    \A w \in Workers : call[w] # NoCall =>
        LET d == call[w]
        IN  /\ answer[d.request] # "NONE"
            /\ d.step \in {"check", "write"} => d.to \in {"PENDING", "CONTACTED", "DECLINED"}
            /\ d.step \in {"retarget", "enrol", "link"} => CourseOf[d.intake] = AskedFor[d.request]
            /\ d.step = "link" => payment[SeatOf(d.request, d.intake)] \in Paid

\* EnrolledRequestHasItsSeat is not inductive without the seat that a conversion
\* has taken and not linked yet.
RInv == TypeOK /\ RequestTypeOK /\ EnrolledRequestHasItsSeat /\ CallsInOrder

LEMMA RequestInitial == RequestInit => RInv
<1> SUFFICES ASSUME RequestInit PROVE RInv
  OBVIOUS
<1>1. TypeOK
  BY TypeInit DEF RequestInit
<1>2. RequestTypeOK
  BY DEF RequestInit, RequestTypeOK, Answers
<1>3. EnrolledRequestHasItsSeat /\ CallsInOrder
  BY DEF RequestInit, EnrolledRequestHasItsSeat, CallsInOrder
<1> QED
  BY <1>1, <1>2, <1>3 DEF RInv

\* The rows of IntakeEnrollment move by its own actions or not at all.
LEMMA CoreStep == RInv /\ [RequestNext]_allVars => [Next]_vars
<1> SUFFICES ASSUME RInv, [RequestNext]_allVars PROVE [Next]_vars
  OBVIOUS
<1>1. ASSUME NEW r \in Requests, Create(r) PROVE UNCHANGED vars
  BY <1>1 DEF Create
<1>2. ASSUME NEW w \in Workers, WorkerStep(w) PROVE [Next]_vars
  <2>1. ASSUME NEW p \in Paid, Enroll(w, p) PROVE Next
    <3>1. call[w].intake \in Intakes /\ OwnerOf[call[w].request] \in Students
      BY <2>1 DEF RInv, RequestTypeOK, Enroll, Step, StatusCalls, ConvertCalls
    <3> QED
      BY <2>1, <3>1 DEF Enroll, Next, SeatStep, Paid
  <2> QED
    BY <1>2, <2>1 DEF WorkerStep, ReadForUpdate, CheckUpdate, WriteUpdate, ReadForEnroll, Resolve,
       Retarget, MarkEnrolled, GiveUp, Paid
<1>3. CASE IntakeMoved
  BY <1>3 DEF IntakeMoved, Next, IntakeStep, IntakeStates
<1>4. CASE SeatMoved
  BY <1>4 DEF SeatMoved, Next, SeatStep, EnrollmentStates
<1>5. CASE UNCHANGED allVars
  BY <1>5 DEF allVars
<1> QED
  BY <1>1, <1>2, <1>3, <1>4, <1>5 DEF RequestNext

\* Requests are handled in paid courses: a seat that is paid for stays so.
LEMMA PaidStays ==
    ASSUME RInv, [RequestNext]_allVars, NEW e \in Seats, payment[e] \in Paid
    PROVE  payment'[e] \in Paid
<1> USE DEF Paid
<1>1. ASSUME NEW i \in Intakes, NEW s \in Students, NEW p \in Paid, CreatePaid(i, s, p)
      PROVE  payment'[e] \in Paid
  BY <1>1 DEF CreatePaid, WritePaid, RInv, TypeOK
<1>2. ASSUME NEW r \in Requests, Create(r) PROVE UNCHANGED payment
  BY <1>2 DEF Create, vars
<1>3. ASSUME NEW w \in Workers, WorkerStep(w) PROVE payment'[e] \in Paid
  <2>1. ASSUME NEW p \in Paid, Enroll(w, p) PROVE payment'[e] \in Paid
    <3>1. call[w].intake \in Intakes /\ OwnerOf[call[w].request] \in Students
      BY <2>1 DEF RInv, RequestTypeOK, Enroll, Step, StatusCalls, ConvertCalls
    <3> QED
      BY <1>1, <2>1, <3>1 DEF Enroll
  <2> QED
    BY <1>3, <2>1 DEF WorkerStep, ReadForUpdate, CheckUpdate, WriteUpdate, ReadForEnroll, Resolve,
       Retarget, MarkEnrolled, GiveUp, vars
<1>4. CASE IntakeMoved
  BY <1>4 DEF IntakeMoved, CreateIntake, WriteNewIntake, TransitionStatus, WriteTransition, seatVars
<1>5. CASE SeatMoved
  BY <1>1, <1>5 DEF SeatMoved, UpdateEnrollment, WriteEnrollment
<1>6. CASE UNCHANGED allVars
  BY <1>6 DEF allVars, vars
<1> QED
  BY <1>2, <1>3, <1>4, <1>5, <1>6 DEF RequestNext

\* A seat of a request, and the type of what a call holds.
LEMMA CallTypes ==
    ASSUME RInv, NEW w \in Workers, call[w] # NoCall
    PROVE  /\ call[w].request \in Requests
           /\ call[w].step \in {"check", "write"} => call[w] \in StatusCalls
           /\ call[w].step \in {"resolve", "retarget", "enrol", "link"} =>
                  call[w] \in ConvertCalls /\ call[w].intake \in Intakes
           /\ call[w] \in StatusCalls \/ call[w] \in ConvertCalls
BY DEF RInv, RequestTypeOK, StatusCalls, ConvertCalls

\* A step that leaves the requests' rows and the calls alone.
LEMMA OnlyTheCore ==
    ASSUME RInv, [RequestNext]_allVars, UNCHANGED <<requestVars, call>> PROVE RInv'
<1>1. TypeOK'
  BY CoreStep, TypeStep DEF RInv
<1>2. RequestTypeOK'
  BY DEF RInv, RequestTypeOK, requestVars, Runs
<1>3. \A e \in Seats : payment[e] \in Paid => payment'[e] \in Paid
  BY PaidStays
<1>4. EnrolledRequestHasItsSeat'
  BY <1>3 DEF RInv, EnrolledRequestHasItsSeat, RequestTypeOK, requestVars, Paid
<1>5. \A r \in Requests, i \in Intakes : SeatOf(r, i) \in Seats
  BY DEF SeatOf, Seats
<1>6. CallsInOrder'
  BY <1>3, <1>5, CallTypes DEF RInv, CallsInOrder, requestVars, SeatOf
<1> QED
  BY <1>1, <1>2, <1>4, <1>6 DEF RInv

LEMMA RInvCreate ==
    ASSUME RInv, NEW r \in Requests, Create(r) PROVE RInv'
<1> USE DEF RInv, Create, vars
<1>1. TypeOK'
  BY DEF TypeOK
<1>2. RequestTypeOK'
  BY DEF RequestTypeOK, Answers, Runs
<1>3. EnrolledRequestHasItsSeat'
  BY DEF EnrolledRequestHasItsSeat, RequestTypeOK
<1>4. CallsInOrder'
  BY CallTypes DEF CallsInOrder, RequestTypeOK, SeatOf
<1> QED
  BY <1>1, <1>2, <1>3, <1>4

\* A step of worker w that changes nothing but its own call.
LEMMA OnlyTheCall ==
    ASSUME RInv, NEW w \in Workers, UNCHANGED <<vars, requestVars>>,
           NEW d \in StatusCalls \cup ConvertCalls \cup {NoCall},
           call' = [call EXCEPT ![w] = d],
           d # NoCall =>
               /\ answer[d.request] # "NONE"
               /\ d.step \in {"check", "write"} => d.to \in {"PENDING", "CONTACTED", "DECLINED"}
               /\ d.step \in {"retarget", "enrol", "link"} => CourseOf[d.intake] = AskedFor[d.request]
               /\ d.step = "link" => payment[SeatOf(d.request, d.intake)] \in Paid
    PROVE  RInv'
<1> USE DEF RInv, vars, requestVars
<1>1. TypeOK'
  BY DEF TypeOK
<1>2. RequestTypeOK'
  BY DEF RequestTypeOK, Runs
<1>3. EnrolledRequestHasItsSeat'
  BY DEF EnrolledRequestHasItsSeat
<1>4. \A v \in Workers : call'[v] = IF v = w THEN d ELSE call[v]
  BY DEF RequestTypeOK
<1>5. CallsInOrder'
  BY <1>4 DEF CallsInOrder, SeatOf
<1> QED
  BY <1>1, <1>2, <1>3, <1>5

LEMMA RInvReads ==
    ASSUME RInv, NEW w \in Workers, NEW r \in Requests,
           (\E next \in Answers : ReadForUpdate(w, r, next)) \/ ReadForEnroll(w, r)
    PROVE  RInv'
<1>1. ASSUME NEW next \in Answers, ReadForUpdate(w, r, next) PROVE RInv'
  <2> DEFINE d == [step |-> "check", request |-> r, read |-> answer[r], to |-> next]
  <2>1. answer[r] \in Answers
    BY DEF RInv, RequestTypeOK
  <2>2. answer[r] # "NONE" /\ next \in {"PENDING", "CONTACTED", "DECLINED"}
    BY <1>1, <2>1 DEF ReadForUpdate, AnswerMoves, Answers
  <2>3. d \in StatusCalls
    BY <2>1 DEF StatusCalls
  <2> QED
    BY <1>1, <2>2, <2>3, OnlyTheCall DEF ReadForUpdate
<1>2. CASE ReadForEnroll(w, r)
  <2>1. answer[r] # "NONE" /\ intakeOf[r] \in Intakes /\ CourseOf[intakeOf[r]] = AskedFor[r]
    BY <1>2 DEF ReadForEnroll, Open, RInv, RequestTypeOK, Runs
  <2> DEFINE d == [step |-> IF status[intakeOf[r]] = "OPEN_ACTIVE" THEN "enrol" ELSE "resolve",
                   request |-> r, intake |-> intakeOf[r]]
  <2>2. d \in ConvertCalls
    BY <2>1 DEF ConvertCalls
  <2> QED
    BY <1>2, <2>1, <2>2, OnlyTheCall DEF ReadForEnroll, Go
<1> QED
  BY <1>1, <1>2

LEMMA RInvCheck ==
    ASSUME RInv, NEW w \in Workers, CheckUpdate(w) PROVE RInv'
<1> DEFINE d == [call[w] EXCEPT !.step = "write"]
<1>1. call[w] # NoCall /\ call[w] \in StatusCalls
  BY CallTypes DEF CheckUpdate
<1>2. d \in StatusCalls /\ d.request = call[w].request /\ d.to = call[w].to /\ d.step = "write"
  BY <1>1 DEF StatusCalls
<1>3. answer[d.request] # "NONE" /\ d.to \in {"PENDING", "CONTACTED", "DECLINED"}
  BY <1>1, <1>2 DEF RInv, CallsInOrder, CheckUpdate
<1>4. call' = [call EXCEPT ![w] = d]
  BY DEF CheckUpdate
<1> QED
  BY <1>2, <1>3, <1>4, OnlyTheCall DEF CheckUpdate

LEMMA RInvWrite ==
    ASSUME RInv, NEW w \in Workers, WriteUpdate(w) PROVE RInv'
<1> DEFINE r == call[w].request
<1>1. call[w] # NoCall /\ r \in Requests /\ answer[r] # "NONE"
      /\ call[w].to \in {"PENDING", "CONTACTED", "DECLINED"}
  BY CallTypes DEF RInv, CallsInOrder, WriteUpdate
<1>2. \A q \in Requests : answer'[q] = IF q = r THEN call[w].to ELSE answer[q]
  BY <1>1 DEF WriteUpdate, RInv, RequestTypeOK
<1>3. UNCHANGED <<vars, intakeOf, link>> /\ \A v \in Workers : call'[v] \in {NoCall, call[v]}
  BY DEF WriteUpdate, RInv, RequestTypeOK
<1>4. TypeOK'
  BY <1>3 DEF RInv, TypeOK, vars
<1>5. RequestTypeOK'
  BY <1>1, <1>2, <1>3 DEF WriteUpdate, RInv, RequestTypeOK, Answers, Runs
<1>6. EnrolledRequestHasItsSeat'
  BY <1>1, <1>2, <1>3 DEF RInv, EnrolledRequestHasItsSeat, vars
<1>7. CallsInOrder'
  BY <1>1, <1>2, <1>3, CallTypes DEF RInv, CallsInOrder, SeatOf, vars
<1> QED
  BY <1>4, <1>5, <1>6, <1>7 DEF RInv

LEMMA RInvResolve ==
    ASSUME RInv, NEW w \in Workers, Resolve(w) PROVE RInv'
<1>1. call[w] # NoCall /\ call[w].request \in Requests /\ answer[call[w].request] # "NONE"
  BY CallTypes DEF RInv, CallsInOrder, Resolve, Step
<1>2. PICK i \in Runs(AskedFor[call[w].request]) : Go(w, call[w].request, i, "retarget")
  BY DEF Resolve
<1> DEFINE d == [step |-> "retarget", request |-> call[w].request, intake |-> i]
<1>3. d \in ConvertCalls /\ CourseOf[d.intake] = AskedFor[d.request]
  BY <1>1, <1>2 DEF ConvertCalls, Runs
<1> QED
  BY <1>1, <1>2, <1>3, OnlyTheCall DEF Resolve, Go

LEMMA RInvRetarget ==
    ASSUME RInv, NEW w \in Workers, Retarget(w) PROVE RInv'
<1> DEFINE r == call[w].request
           i == call[w].intake
           d == [step |-> "enrol", request |-> r, intake |-> i]
<1>1. r \in Requests /\ i \in Intakes /\ answer[r] # "NONE" /\ CourseOf[i] = AskedFor[r]
  BY CallTypes DEF RInv, CallsInOrder, Retarget, Step
<1>2. d \in ConvertCalls
  BY <1>1 DEF ConvertCalls
<1>3. UNCHANGED <<vars, answer, link>> /\ intakeOf' = [intakeOf EXCEPT ![r] = i]
      /\ call' = [call EXCEPT ![w] = d]
  BY DEF Retarget, Go
<1>4. \A v \in Workers : call'[v] = IF v = w THEN d ELSE call[v]
  BY <1>3 DEF RInv, RequestTypeOK
<1>5. TypeOK'
  BY <1>3 DEF RInv, TypeOK, vars
<1>6. RequestTypeOK'
  BY <1>1, <1>2, <1>3 DEF RInv, RequestTypeOK, Runs
<1>7. EnrolledRequestHasItsSeat'
  BY <1>3 DEF RInv, EnrolledRequestHasItsSeat, vars
<1>8. CallsInOrder'
  BY <1>1, <1>3, <1>4 DEF RInv, CallsInOrder, SeatOf, vars
<1> QED
  BY <1>5, <1>6, <1>7, <1>8 DEF RInv

LEMMA RInvEnroll ==
    ASSUME RInv, NEW w \in Workers, NEW p \in Paid, Enroll(w, p), [RequestNext]_allVars PROVE RInv'
<1> DEFINE r == call[w].request
           i == call[w].intake
           d == [step |-> "link", request |-> r, intake |-> i]
<1>1. /\ r \in Requests /\ i \in Intakes /\ answer[r] # "NONE" /\ CourseOf[i] = AskedFor[r]
      /\ SeatOf(r, i) \in Seats
  BY CallTypes DEF RInv, CallsInOrder, Enroll, Step, SeatOf, Seats
<1>2. d \in ConvertCalls
  BY <1>1 DEF ConvertCalls
<1>3. UNCHANGED requestVars /\ call' = [call EXCEPT ![w] = d]
  BY DEF Enroll, Go
<1>4. \A v \in Workers : call'[v] = IF v = w THEN d ELSE call[v]
  BY <1>3 DEF RInv, RequestTypeOK
<1>5. \A e \in Seats : payment[e] \in Paid => payment'[e] \in Paid
  BY PaidStays
<1>6. payment'[SeatOf(r, i)] \in Paid
  BY <1>1 DEF Enroll, CreatePaid, WritePaid, SeatOf, RInv, TypeOK
<1>7. TypeOK'
  BY CoreStep, TypeStep DEF RInv
<1>8. RequestTypeOK'
  BY <1>2, <1>3 DEF RInv, RequestTypeOK, requestVars, Runs
<1>9. EnrolledRequestHasItsSeat'
  BY <1>3, <1>5 DEF RInv, EnrolledRequestHasItsSeat, RequestTypeOK, requestVars, Paid
<1>10. \A q \in Requests, j \in Intakes : SeatOf(q, j) \in Seats /\ SeatOf(q, j)' = SeatOf(q, j)
  BY DEF SeatOf, Seats
<1>11. ASSUME NEW v \in Workers, v # w, call[v] # NoCall, call[v].step = "link"
       PROVE  payment'[SeatOf(call[v].request, call[v].intake)] \in Paid
  BY <1>5, <1>10, <1>11, CallTypes DEF RInv, CallsInOrder
<1>12. CallsInOrder'
  BY <1>1, <1>3, <1>4, <1>6, <1>10, <1>11 DEF RInv, CallsInOrder, requestVars, SeatOf
<1> QED
  BY <1>7, <1>8, <1>9, <1>12 DEF RInv

LEMMA RInvLink ==
    ASSUME RInv, NEW w \in Workers, MarkEnrolled(w) PROVE RInv'
<1> DEFINE r == call[w].request
           e == LinkedSeat(w)
<1>1. /\ call[w] # NoCall /\ r \in Requests /\ call[w].intake \in Intakes /\ answer[r] # "NONE"
      /\ CourseOf[call[w].intake] = AskedFor[r] /\ payment[e] \in Paid
  BY CallTypes DEF RInv, CallsInOrder, MarkEnrolled, Step, LinkedSeat
<1>2. e \in Seats /\ e # NoSeat /\ e[2] = OwnerOf[r] /\ CourseOf[e[1]] = AskedFor[r]
  BY <1>1 DEF LinkedSeat, SeatOf, Seats
<1>3. \A q \in Requests : /\ answer'[q] = IF q = r THEN "ENROLLED" ELSE answer[q]
                          /\ link'[q] = IF q = r THEN e ELSE link[q]
  BY DEF MarkEnrolled, RInv, RequestTypeOK
<1>4. \A q \in Requests : q # r => link[q] # e
  BY DEF MarkEnrolled
<1>5. UNCHANGED <<vars, intakeOf>> /\ \A v \in Workers : call'[v] \in {NoCall, call[v]}
  BY DEF MarkEnrolled, End, RInv, RequestTypeOK
<1> HIDE DEF e
<1>6. TypeOK'
  BY <1>5 DEF RInv, TypeOK, vars
<1>7. RequestTypeOK'
  BY <1>1, <1>2, <1>3, <1>5 DEF MarkEnrolled, End, RInv, RequestTypeOK, Answers, Runs, e
<1>8. EnrolledRequestHasItsSeat'
  BY <1>1, <1>2, <1>3, <1>4, <1>5 DEF RInv, EnrolledRequestHasItsSeat, vars, Paid
<1>9. CallsInOrder'
  BY <1>1, <1>3, <1>5, CallTypes DEF RInv, CallsInOrder, SeatOf, vars
<1> QED
  BY <1>6, <1>7, <1>8, <1>9 DEF RInv

LEMMA RInvGiveUp ==
    ASSUME RInv, NEW w \in Workers, GiveUp(w) PROVE RInv'
BY OnlyTheCall DEF GiveUp, End

LEMMA RInvStep == RInv /\ [RequestNext]_allVars => RInv'
<1> SUFFICES ASSUME RInv, [RequestNext]_allVars PROVE RInv'
  OBVIOUS
<1>1. ASSUME NEW w \in Workers, WorkerStep(w) PROVE RInv'
  BY <1>1, RInvReads, RInvCheck, RInvWrite, RInvResolve, RInvRetarget, RInvEnroll, RInvLink,
     RInvGiveUp DEF WorkerStep, Paid
<1>2. CASE IntakeMoved \/ SeatMoved \/ UNCHANGED allVars
  BY <1>2, OnlyTheCore DEF IntakeMoved, SeatMoved, allVars, requestVars
<1> QED
  BY <1>1, <1>2, RInvCreate DEF RequestNext

-----------------------------------------------------------------------------
THEOREM RequestInvariant == RequestSpec => []RInv
BY RequestInitial, RInvStep, PTL DEF RequestSpec

\* Requests, calls and links have their types, and the intake of a filed request
\* is always a run of the course it was filed for.
THEOREM RequestTypes == RequestSpec => []RequestTypeOK
<1>1. RInv => RequestTypeOK
  BY DEF RInv
<1> QED
  BY <1>1, RequestInvariant, PTL

\* An ENROLLED request is backed by a paid seat of its own student in its own
\* course, claimed by no other request (enrollmentRequest.service.js:146-209,
\* enrollmentRequest.repository.js:93-121), however many administrators convert
\* requests at the same time and wherever a conversion is cut off.
THEOREM EnrolledHasSeat == RequestSpec => []EnrolledRequestHasItsSeat
<1>1. RInv => EnrolledRequestHasItsSeat
  BY DEF RInv
<1> QED
  BY <1>1, RequestInvariant, PTL

\* The request desk is a client of the enrolment core: its intakes and seats
\* move by the actions of IntakeEnrollment only, so every theorem about that
\* specification holds of this one.
THEOREM RequestsUseTheCore == RequestSpec => Spec
<1>1. RequestInit => Init
  BY DEF RequestInit
<1>2. RInv /\ [RequestNext]_allVars => [Next]_vars
  BY CoreStep
<1> QED
  BY <1>1, <1>2, RequestInvariant, PTL DEF RequestSpec, Spec

\* In particular the intakes and seats that requests lead to keep the invariant of
\* the core: one open intake per course, payments that add up, earned certificates.
THEOREM RequestsKeepTheCore == RequestSpec => []IInv
BY RequestsUseTheCore, Invariance, PTL

-----------------------------------------------------------------------------
\* Answers are written under the lock of their request: no two at once, each one
\* that ALLOWED_TRANSITIONS has for the status read, which the row still has unless
\* a conversion has ended since.
AnswersInFlight ==
    /\ \A w \in Workers : call[w] # NoCall /\ call[w].step \in {"check", "write"} =>
          call[w].to \in AnswerMoves[call[w].read]
    /\ \A w \in Workers, r \in Requests : AnswerInFlight(w, r) =>
          /\ answer[r] \in {call[w].read, "ENROLLED"}
          /\ \A v \in Workers : AnswerInFlight(v, r) => v = w

\* A step that leaves the answers alone and puts no call at "write".
LEMMA FlightKept ==
    ASSUME RInv, AnswersInFlight, UNCHANGED answer, NEW w \in Workers,
           \A v \in Workers \ {w} : call'[v] = call[v],
           call'[w] # NoCall => call'[w].step # "write",
           call'[w] # NoCall /\ call'[w].step = "check" => call'[w].to \in AnswerMoves[call'[w].read]
    PROVE  AnswersInFlight'
<1>1. \A v \in Workers, r \in Requests :
          AnswerInFlight(v, r)' => call'[v] = call[v] /\ AnswerInFlight(v, r)
  BY DEF AnswerInFlight
<1>2. \A v \in Workers : call'[v] # NoCall /\ call'[v].step \in {"check", "write"} =>
          call'[v].to \in AnswerMoves[call'[v].read]
  BY DEF AnswersInFlight
<1>3. \A v \in Workers, r \in Requests : AnswerInFlight(v, r)' =>
          /\ answer'[r] \in {call'[v].read, "ENROLLED"}
          /\ \A u \in Workers : AnswerInFlight(u, r)' => u = v
  BY <1>1 DEF AnswersInFlight
<1> QED
  BY <1>2, <1>3 DEF AnswersInFlight, AnswerMoves

LEMMA FlightStep == RInv /\ AnswersInFlight /\ [RequestNext]_allVars => AnswersInFlight'
<1> SUFFICES ASSUME RInv, AnswersInFlight, [RequestNext]_allVars PROVE AnswersInFlight'
  OBVIOUS
<1> USE DEF AnswerMoves
<1>1. /\ answer \in [Requests -> Answers]
      /\ call \in [Workers -> StatusCalls \cup ConvertCalls \cup {NoCall}]
  BY DEF RInv, RequestTypeOK
<1>2. ASSUME NEW r \in Requests, Create(r) PROVE AnswersInFlight'
  <2>1. answer[r] = "NONE" /\ answer' = [answer EXCEPT ![r] = "PENDING"] /\ call' = call
    BY <1>2 DEF Create
  <2>2. \A w \in Workers : call[w] # NoCall => call[w].request # r /\ answer'[call[w].request] = answer[call[w].request]
    BY <1>1, <2>1, CallTypes DEF RInv, CallsInOrder
  <2> QED
    BY <2>1, <2>2 DEF AnswersInFlight, AnswerInFlight
<1>3. ASSUME NEW w \in Workers, WorkerStep(w) PROVE AnswersInFlight'
  <2>1. CASE \E r \in Requests, next \in Answers : ReadForUpdate(w, r, next)
    <3>1. PICK r \in Requests, next \in Answers : ReadForUpdate(w, r, next)
      BY <2>1
    <3>2. call'[w] = [step |-> "check", request |-> r, read |-> answer[r], to |-> next]
          /\ \A v \in Workers \ {w} : call'[v] = call[v]
      BY <1>1, <3>1 DEF ReadForUpdate
    <3>3. next \in AnswerMoves[answer[r]] /\ UNCHANGED answer
      BY <3>1 DEF ReadForUpdate, requestVars
    <3> QED
      BY <3>2, <3>3, FlightKept
  <2>2. CASE CheckUpdate(w)
    <3> DEFINE r == call[w].request
    <3>1. call[w] # NoCall /\ call[w].step = "check" /\ call[w] \in StatusCalls /\ answer[r] = call[w].read
          /\ \A v \in Workers : ~AnswerInFlight(v, r)
      BY <2>2, CallTypes DEF CheckUpdate, Unchanged, AnswerInFlight
    <3>2. /\ call'[w] = [call[w] EXCEPT !.step = "write"] /\ \A v \in Workers \ {w} : call'[v] = call[v]
          /\ UNCHANGED answer
      BY <1>1, <2>2 DEF CheckUpdate, requestVars
    <3>3. /\ call'[w].step = "write" /\ call'[w].request = r /\ call'[w].read = call[w].read
          /\ call'[w].to = call[w].to /\ r \in Requests
      BY <3>1, <3>2 DEF StatusCalls
    <3>4. call[w].to \in AnswerMoves[call[w].read]
      BY <3>1 DEF AnswersInFlight
    <3>5. \A v \in Workers, q \in Requests : AnswerInFlight(v, q)' =>
              IF v = w THEN q = r ELSE q # r /\ AnswerInFlight(v, q) /\ call'[v] = call[v]
      <4>1. \A q \in Requests : AnswerInFlight(w, q)' => q = r
        BY <3>2, <3>3 DEF AnswerInFlight
      <4>2. ASSUME NEW v \in Workers, v # w, NEW q \in Requests, AnswerInFlight(v, q)'
            PROVE  q # r /\ AnswerInFlight(v, q) /\ call'[v] = call[v]
        <5>1. call'[v] = call[v]
          BY <3>2, <4>2
        <5>2. AnswerInFlight(v, q)
          BY <4>2, <5>1 DEF AnswerInFlight
        <5> QED
          BY <3>1, <5>1, <5>2
      <4> QED
        BY <4>1, <4>2
    <3>6. \A v \in Workers, q \in Requests : AnswerInFlight(v, q)' =>
              /\ answer'[q] \in {call'[v].read, "ENROLLED"}
              /\ \A u \in Workers : AnswerInFlight(u, q)' => u = v
      <4>1. ASSUME NEW v \in Workers, v # w, NEW q \in Requests, AnswerInFlight(v, q)'
            PROVE  /\ answer'[q] \in {call'[v].read, "ENROLLED"}
                   /\ \A u \in Workers : AnswerInFlight(u, q)' => u = v
        <5>1. q # r /\ AnswerInFlight(v, q) /\ call'[v] = call[v]
          BY <3>5, <4>1
        <5>2. answer[q] \in {call[v].read, "ENROLLED"} /\ \A u \in Workers : AnswerInFlight(u, q) => u = v
          BY <5>1 DEF AnswersInFlight
        <5> QED
          BY <3>2, <3>5, <5>1, <5>2
      <4>2. \A u \in Workers : AnswerInFlight(u, r)' => u = w
        BY <3>3, <3>5
      <4>3. answer'[r] \in {call'[w].read, "ENROLLED"}
        BY <3>1, <3>2, <3>3
      <4> QED
        BY <3>5, <4>1, <4>2, <4>3
    <3>7. \A v \in Workers : call'[v] # NoCall /\ call'[v].step \in {"check", "write"} =>
              call'[v].to \in AnswerMoves[call'[v].read]
      BY <3>2, <3>3, <3>4 DEF AnswersInFlight
    <3> QED
      BY <3>6, <3>7 DEF AnswersInFlight
  <2>3. CASE WriteUpdate(w)
    <3> DEFINE r == call[w].request
    <3>1. call[w] # NoCall /\ AnswerInFlight(w, r) /\ r \in Requests
      BY <2>3, CallTypes DEF WriteUpdate, AnswerInFlight
    <3>2. /\ answer' = [answer EXCEPT ![r] = call[w].to] /\ call'[w] = NoCall
          /\ \A v \in Workers \ {w} : call'[v] = call[v]
      BY <1>1, <2>3 DEF WriteUpdate
    <3>3. \A v \in Workers, q \in Requests : AnswerInFlight(v, q)' =>
              v # w /\ AnswerInFlight(v, q) /\ call'[v] = call[v]
      BY <3>2 DEF AnswerInFlight
    <3>4. \A v \in Workers, q \in Requests : AnswerInFlight(v, q)' => q # r /\ answer'[q] = answer[q]
      BY <1>1, <3>1, <3>2, <3>3 DEF AnswersInFlight
    <3>5. \A v \in Workers, q \in Requests : AnswerInFlight(v, q)' =>
              /\ answer'[q] \in {call'[v].read, "ENROLLED"}
              /\ \A u \in Workers : AnswerInFlight(u, q)' => u = v
      BY <3>3, <3>4 DEF AnswersInFlight
    <3>6. \A v \in Workers : call'[v] # NoCall /\ call'[v].step \in {"check", "write"} =>
              call'[v].to \in AnswerMoves[call'[v].read]
      BY <3>2 DEF AnswersInFlight
    <3> QED
      BY <3>5, <3>6 DEF AnswersInFlight
  <2>4. CASE MarkEnrolled(w)
    <3> DEFINE r == call[w].request
    <3>1. /\ r \in Requests /\ answer' = [answer EXCEPT ![r] = "ENROLLED"] /\ call'[w] = NoCall
          /\ \A v \in Workers \ {w} : call'[v] = call[v]
      BY <1>1, <2>4, CallTypes DEF MarkEnrolled, Step, End
    <3>2. \A v \in Workers, q \in Requests : AnswerInFlight(v, q)' =>
              v # w /\ AnswerInFlight(v, q) /\ call'[v] = call[v]
      BY <3>1 DEF AnswerInFlight
    <3>3. \A q \in Requests : answer'[q] \in {answer[q], "ENROLLED"}
      BY <1>1, <3>1
    <3>4. \A v \in Workers, q \in Requests : AnswerInFlight(v, q)' =>
              /\ answer'[q] \in {call'[v].read, "ENROLLED"}
              /\ \A u \in Workers : AnswerInFlight(u, q)' => u = v
      BY <3>2, <3>3 DEF AnswersInFlight
    <3>5. \A v \in Workers : call'[v] # NoCall /\ call'[v].step \in {"check", "write"} =>
              call'[v].to \in AnswerMoves[call'[v].read]
      BY <3>1 DEF AnswersInFlight
    <3> QED
      BY <3>4, <3>5 DEF AnswersInFlight
  <2>5. CASE \/ \E r \in Requests : ReadForEnroll(w, r)
             \/ Resolve(w) \/ Retarget(w) \/ \E p \in Paid : Enroll(w, p)
    <3>1. \E r, i : \E name \in {"resolve", "retarget", "enrol", "link"} : Go(w, r, i, name)
      BY <2>5 DEF ReadForEnroll, Resolve, Retarget, Enroll
    <3>2. call'[w].step \in {"resolve", "retarget", "enrol", "link"} /\ \A v \in Workers \ {w} : call'[v] = call[v]
      BY <1>1, <3>1 DEF Go
    <3>3. UNCHANGED answer
      BY <2>5 DEF ReadForEnroll, Resolve, Retarget, Enroll, requestVars
    <3> QED
      BY <3>2, <3>3, FlightKept
  <2>6. CASE GiveUp(w)
    <3>1. call'[w] = NoCall /\ (\A v \in Workers \ {w} : call'[v] = call[v]) /\ UNCHANGED answer
      BY <1>1, <2>6 DEF GiveUp, End, requestVars
    <3> QED
      BY <3>1, FlightKept
  <2> QED
    BY <1>3, <2>1, <2>2, <2>3, <2>4, <2>5, <2>6 DEF WorkerStep, Paid
<1>4. CASE IntakeMoved \/ SeatMoved \/ UNCHANGED allVars
  BY <1>4 DEF IntakeMoved, SeatMoved, allVars, requestVars, AnswersInFlight, AnswerInFlight
<1> QED
  BY <1>2, <1>3, <1>4 DEF RequestNext

\* A request that becomes open beside an open one of the same student and course
\* was answered before, and is written by an answer that was checked.
LEMMA ReopenStep ==
    ASSUME RInv, AnswersInFlight, [RequestNext]_allVars, NEW r \in Requests, NEW q \in Requests,
           OwnerOf[q] = OwnerOf[r], AskedFor[q] = AskedFor[r], answer[q] \in Open,
           answer[r] \notin Open, answer'[r] \in Open
    PROVE  Reopened(r) \/ WrittenOverConversion(r)
<1>1. ASSUME NEW p \in Requests, Create(p) PROVE FALSE
  BY <1>1 DEF Create, NoOtherOpen, RInv, RequestTypeOK
<1>2. ASSUME NEW w \in Workers, WriteUpdate(w), call[w].request = r
      PROVE  Reopened(r) \/ WrittenOverConversion(r)
  <2>1. call[w] # NoCall /\ call[w].step = "write" /\ call[w] \in StatusCalls /\ AnswerInFlight(w, r)
    BY <1>2, CallTypes DEF WriteUpdate, AnswerInFlight
  <2>2. answer'[r] = call[w].to
    BY <1>2 DEF WriteUpdate, RInv, RequestTypeOK
  <2>3. call[w].to \in AnswerMoves[call[w].read] /\ answer[r] \in {call[w].read, "ENROLLED"}
    BY <1>2, <2>1 DEF AnswersInFlight
  <2>4. CASE answer[r] = "ENROLLED"
    BY <2>1, <2>2, <2>3, <2>4 DEF WrittenOverConversion
  <2>5. CASE answer[r] = call[w].read
    <3>1. answer[r] = "DECLINED" /\ call[w].to = "PENDING"
      BY <2>1, <2>2, <2>3, <2>5 DEF AnswerMoves, Open, StatusCalls, Answers
    <3> QED
      BY <2>1, <2>2, <2>5, <3>1 DEF Reopened
  <2> QED
    BY <2>3, <2>4, <2>5
<1>3. ASSUME NEW w \in Workers, WorkerStep(w), ~(WriteUpdate(w) /\ call[w].request = r)
      PROVE  FALSE
  <2>1. ASSUME WriteUpdate(w) PROVE FALSE
    BY <1>3, <2>1 DEF WriteUpdate, RInv, RequestTypeOK
  <2>2. ASSUME MarkEnrolled(w) PROVE FALSE
    BY <2>2 DEF MarkEnrolled, RInv, RequestTypeOK, Open
  <2> QED
    BY <1>3, <2>1, <2>2 DEF WorkerStep, ReadForUpdate, CheckUpdate, ReadForEnroll, Resolve, Retarget, Enroll,
       GiveUp, requestVars
<1>4. ~(IntakeMoved \/ SeatMoved \/ UNCHANGED allVars)
  BY DEF IntakeMoved, SeatMoved, allVars, requestVars
<1> QED
  BY <1>1, <1>2, <1>3, <1>4 DEF RequestNext

\* A student who has an open request for a course gets a second one only through
\* an administrator's answer, for any number of requests and administrators: one
\* that reopens a declined request, or one that a conversion overtook between its
\* check and its write; filing never makes one.
THEOREM AnsweredOnly == RequestSpec => SecondOpenOnlyByAnswer
<1>a. ASSUME RInv, AnswersInFlight, [RequestNext]_allVars, NEW q \in Requests, NEW r \in Requests,
             OwnerOf[q] = OwnerOf[r], AskedFor[q] = AskedFor[r], answer[q] \in Open,
             answer[r] \notin Open, answer'[r] \in Open
      PROVE  Reopened(r) \/ WrittenOverConversion(r)
  BY <1>a, ReopenStep
<1>1. RInv /\ AnswersInFlight /\ [RequestNext]_allVars =>
        [\A q, r \in Requests :
            (/\ OwnerOf[q] = OwnerOf[r] /\ AskedFor[q] = AskedFor[r]
             /\ answer[q] \in Open /\ answer[r] \notin Open /\ answer'[r] \in Open)
                => Reopened(r) \/ WrittenOverConversion(r)]_allVars
  BY <1>a
<1>2. RequestInit => AnswersInFlight
  BY DEF RequestInit, AnswersInFlight, AnswerInFlight
<1> QED
  BY <1>1, <1>2, FlightStep, RequestInvariant, PTL DEF RequestSpec, SecondOpenOnlyByAnswer
=============================================================================
