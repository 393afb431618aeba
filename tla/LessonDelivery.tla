--------------------------- MODULE LessonDelivery ----------------------------
(***************************************************************************)
(* The session library, the curriculum of an intake row by row, and the    *)
(* classroom, composed with the enrolment core: IntakeEnrollment is        *)
(* instantiated with its "curriculum" read off the course_sessions rows,   *)
(* so that its intake, seat and catalog actions run here unchanged, and    *)
(* every curriculum transaction has to implement one of its moves.         *)
(*                                                                         *)
(* All courses are courses of one learning service: every curriculum,      *)
(* intake, enrolment and classroom transaction starts with its lock and is *)
(* one step.  Library transactions take the locks of the intakes that use  *)
(* the session and of the session, but not of the service, and attach      *)
(* reads a session without its lock.  Attaching a session and returning an *)
(* unused one to draft are therefore two steps each, a read and a commit.  *)
(***************************************************************************)
EXTENDS Naturals, FiniteSets, FiniteSetsExt

CONSTANTS
    Courses, Intakes, Students, CourseOf, FreeCourses, CertifiedCourses,
    Capacities, Unlimited, Seeded,   \* as in IntakeEnrollment
    Sessions,   \* sessions of the library; a deleted id is "GONE" for good
    Example,    \* the session that is attached and released in seeded intakes
    Same,       \* a field left out of an update
    Nothing     \* no such transaction under way

ASSUME CoreAssumption ==   \* those of IntakeEnrollment
    /\ CourseOf \in [Intakes -> Courses]
    /\ FreeCourses \subseteq Courses /\ CertifiedCourses \subseteq Courses
    /\ Capacities \subseteq Nat \ {0} /\ Unlimited \notin Nat
    /\ IsFiniteSet(Students)
    /\ Seeded \subseteq Intakes
    /\ \A i \in Seeded : CourseOf[i] \in FreeCourses
    /\ \A i, j \in Seeded : CourseOf[i] = CourseOf[j] => i = j

ASSUME LibraryAssumption ==
    /\ IsFiniteSet(Sessions)
    /\ Example \in Sessions
    /\ Same \notin {"DRAFT", "READY"}

VARIABLES
    catalog, badge, status, capacity, enrolled, payment, paid, issued,  \* IntakeEnrollment
    library,    \* per session: sessions.status
    recording,  \* per session: it has a recording URL
    row,        \* per course session: no row, in the live curriculum, or retired
    order,      \* order_index of a live row (a retired row has none)
    delivery,   \* delivery_status
    due,        \* available_at has passed
    released,   \* first_released_at is set
    done,       \* per course session: students with a session_completions row
    attaching,  \* the attach that has read its session as READY
    redrafting  \* the READY session that an update has found unused

enrollVars == <<catalog, badge, status, capacity, enrolled, payment, paid, issued>>
libraryVars == <<library, recording, redrafting>>
rowVars == <<row, order, delivery, due, released, done>>
vars == <<enrollVars, libraryVars, rowVars, attaching>>

Rows == Intakes \X Sessions
LibraryStates == {"NONE", "DRAFT", "READY", "ARCHIVED", "GONE"}
RowStates == {"NONE", "LIVE", "RETIRED"}
DeliveryStates == {"UNRELEASED", "SCHEDULED", "RELEASED", "WITHDRAWN"}
Absent == {"NONE", "GONE"}

Live(i) == {l \in Sessions : row[<<i, l>>] = "LIVE"}
Used(l) == \E i \in Intakes : row[<<i, l>>] # "NONE"

\* isVisibleNow
Visible(i, l) ==
    \/ delivery[<<i, l>>] = "RELEASED"
    \/ delivery[<<i, l>>] = "SCHEDULED" /\ due[<<i, l>>]

\* What IntakeEnrollment knows of a curriculum.
Summary(i) ==
    IF Live(i) = {} THEN "EMPTY"
    ELSE IF \A l \in Live(i) : Visible(i, l) THEN "VISIBLE"
    ELSE IF \E l \in Live(i) : Visible(i, l) THEN "PARTIAL"
    ELSE "HIDDEN"

Core == INSTANCE IntakeEnrollment WITH curriculum <- [i \in Intakes |-> Summary(i)]

\* The position of a lesson in the curriculum, and a whole new order of it.
Rank(i, l) == Cardinality({m \in Live(i) : order[<<i, m>>] < order[<<i, l>>]})
Last(i) == Cardinality(Live(i))
Orders(S) == {p \in [S -> 0 .. Cardinality(S) - 1] : \A l, m \in S : p[l] = p[m] => l = m}

TypeOK ==
    /\ library \in [Sessions -> LibraryStates]
    /\ recording \in [Sessions -> BOOLEAN]
    /\ row \in [Rows -> RowStates]
    /\ order \in [Rows -> Nat]
    /\ delivery \in [Rows -> DeliveryStates]
    /\ due \in [Rows -> BOOLEAN]
    /\ released \in [Rows -> BOOLEAN]
    /\ done \in [Rows -> SUBSET Students]
    /\ attaching \in [intake : Intakes, session : Sessions, index : Nat] \cup {Nothing}
    /\ redrafting \in Sessions \cup {Nothing}
    /\ \A l \in Sessions : library[l] = "READY" => recording[l]
    /\ redrafting # Nothing => library[redrafting] = "READY"
    /\ \A i \in Intakes, l \in Sessions :
          /\ row[<<i, l>>] # "NONE" => library[l] \notin Absent
          /\ row[<<i, l>>] = "NONE" => done[<<i, l>>] = {}
          /\ \A s \in done[<<i, l>>] : enrolled[<<i, s>>] # "NONE"

Init ==
    /\ library \in [Sessions -> {"NONE", "READY"}]
    /\ Seeded # {} => library[Example] = "READY"
    /\ recording = [l \in Sessions |-> library[l] = "READY"]
    /\ row = [r \in Rows |-> IF r \in Seeded \X {Example} THEN "LIVE" ELSE "NONE"]
    /\ order = [r \in Rows |-> 0]
    /\ delivery = [r \in Rows |-> IF r \in Seeded \X {Example} THEN "RELEASED" ELSE "UNRELEASED"]
    /\ due = [r \in Rows |-> FALSE]
    /\ released = [r \in Rows |-> r \in Seeded \X {Example}]
    /\ done = [r \in Rows |-> {}]
    /\ attaching = Nothing
    /\ redrafting = Nothing
    /\ Core!Init

-----------------------------------------------------------------------------
(* The session library.                                                      *)

\* lockSessionContext: the locks of the session and of the intakes that use it.
Unlocked(l) ==
    /\ redrafting # l
    /\ attaching # Nothing => row[<<attaching.intake, l>>] = "NONE"

WriteSession(l, st, has) ==
    /\ library' = [library EXCEPT ![l] = st]
    /\ recording' = [recording EXCEPT ![l] = has]
    /\ UNCHANGED <<enrollVars, rowVars, attaching, redrafting>>

CreateSession(l, st, has) ==
    /\ library[l] = "NONE"
    /\ st \in {"DRAFT", "READY"}
    /\ st = "READY" => has
    /\ WriteSession(l, st, has)

Duplicate(l, copy) ==
    /\ library[l] \notin Absent
    /\ library[copy] = "NONE"
    /\ WriteSession(copy, "DRAFT", recording[l])

MayUpdate(l, st, has) ==
    /\ library[l] \in {"DRAFT", "READY"}
    /\ Unlocked(l)
    /\ (st = "READY" \/ (st = Same /\ library[l] = "READY")) => has

UpdateSession(l, st, has) ==
    /\ MayUpdate(l, st, has)
    /\ st = "DRAFT" => library[l] = "DRAFT" /\ ~Used(l)
    /\ WriteSession(l, IF st = Same THEN library[l] ELSE st, has)

\* An update that returns a READY session to draft: it holds no intake's lock,
\* because it has found no intake that uses the session.
BeginRedraft(l) ==
    /\ library[l] = "READY"
    /\ redrafting = Nothing
    /\ Unlocked(l)
    /\ ~Used(l)
    /\ redrafting' = l
    /\ UNCHANGED <<enrollVars, library, recording, rowVars, attaching>>

CommitRedraft(has) ==
    /\ redrafting # Nothing
    /\ library' = [library EXCEPT ![redrafting] = "DRAFT"]
    /\ recording' = [recording EXCEPT ![redrafting] = has]
    /\ redrafting' = Nothing
    /\ UNCHANGED <<enrollVars, rowVars, attaching>>

\* Also each session of a bulk archive: archiveMany goes on after a refusal.
ArchiveSession(l) ==
    /\ library[l] \notin Absent
    /\ Unlocked(l)
    /\ WriteSession(l, "ARCHIVED", recording[l])

\* Mutant: a session comes back as a draft, used or not.
RestoredDraft(l) == "DRAFT"

Restored(l) == IF Used(l) THEN "READY" ELSE "DRAFT"

RestoreSession(l) ==
    /\ library[l] = "ARCHIVED"
    /\ Unlocked(l)
    /\ Restored(l) = "READY" => recording[l]
    /\ WriteSession(l, Restored(l), recording[l])

\* No advisory lock: the foreign key of course_sessions has the last word.
RemoveSession(l) ==
    /\ library[l] = "ARCHIVED"
    /\ ~Used(l)
    /\ WriteSession(l, "GONE", FALSE)

LibraryStep(l) ==
    \/ \E st \in {"DRAFT", "READY", Same}, has \in BOOLEAN :
          CreateSession(l, st, has) \/ UpdateSession(l, st, has)
    \/ \E copy \in Sessions : Duplicate(l, copy)
    \/ ArchiveSession(l)
    \/ RestoreSession(l)
    \/ RemoveSession(l)
    \/ BeginRedraft(l)
    \/ \E has \in BOOLEAN : redrafting = l /\ CommitRedraft(has)

-----------------------------------------------------------------------------
(* Renumbering.  order_index is unique per intake and the index is checked    *)
(* row by row, so a transaction that renumbers first adds an offset to every  *)
(* live row and then writes the new numbers one by one, from 0 up.            *)

\* Mutant: rows are moved by the largest number in use.
OffsetShort(i) == Max({order[<<i, l>>] : l \in Live(i)} \cup {0})

Offset(i) == Max({order[<<i, l>>] : l \in Live(i)} \cup {0}) + Last(i) + 1

\* The rows in moved have been moved out of range.
Moved(i, moved) ==
    [l \in Live(i) |-> order[<<i, l>>] + IF l \in moved THEN Offset(i) ELSE 0]

\* The first k numbers of the new order p have been written; a row that attach
\* has just added was inserted with its final number.
Written(i, p, k) ==
    [l \in DOMAIN p |-> IF p[l] < k \/ l \notin Live(i) THEN p[l] ELSE order[<<i, l>>] + Offset(i)]

Distinct(f) == \A l, m \in DOMAIN f : f[l] = f[m] => l = m

-----------------------------------------------------------------------------
(* The curriculum.                                                           *)

\* lockIntake: no other transaction of the service is under way.
Editing(i) == attaching = Nothing /\ Core!Editable(i)

\* Mutant: an open free intake may hide its last visible lesson.
KeepsNothing(i, l, next) == TRUE

\* protectOpenFreeCurriculum: a lesson scheduled for the future is not visible.
KeepsVisibleLesson(i, l, next) ==
    status[i] = "OPEN_ACTIVE" /\ Core!Free(i) /\ Visible(i, l) /\ next # "RELEASED" =>
        \E m \in Live(i) \ {l} : Visible(i, m)

BeginAttach(i, l, index) ==
    /\ Editing(i)
    /\ library[l] = "READY"
    /\ row[<<i, l>>] # "LIVE"
    /\ index \in 0 .. Last(i)
    /\ attaching' = [intake |-> i, session |-> l, index |-> index]
    /\ UNCHANGED <<enrollVars, libraryVars, rowVars>>

\* The session may have been edited since; deleted, it fails the foreign key.
\* A retired row is revived, withdrawn from what learners see.
CommitAttach ==
    LET i == attaching.intake
        l == attaching.session
    IN  /\ attaching # Nothing
        /\ library[l] \notin Absent
        /\ order' = [r \in Rows |->
              IF r = <<i, l>> THEN attaching.index
              ELSE IF r[1] = i /\ row[r] = "LIVE"
                   THEN Rank(i, r[2]) + (IF Rank(i, r[2]) < attaching.index THEN 0 ELSE 1)
              ELSE order[r]]
        /\ delivery' = [delivery EXCEPT ![<<i, l>>] =
              IF row[<<i, l>>] = "RETIRED" THEN "WITHDRAWN" ELSE "UNRELEASED"]
        /\ due' = [due EXCEPT ![<<i, l>>] = FALSE]
        /\ row' = [row EXCEPT ![<<i, l>>] = "LIVE"]
        /\ attaching' = Nothing
        /\ UNCHANGED <<enrollVars, libraryVars, released, done>>

\* The transaction fails or times out between its read and its writes.
AbortAttach ==
    /\ attaching # Nothing
    /\ attaching' = Nothing
    /\ UNCHANGED <<enrollVars, libraryVars, rowVars>>

AbortRedraft ==
    /\ redrafting # Nothing
    /\ redrafting' = Nothing
    /\ UNCHANGED <<enrollVars, library, recording, rowVars, attaching>>

\* Lessons whose place matters to learners already, and that p moves.
Disturbed(i, p) ==
    {l \in Live(i) :
        /\ p[l] # order[<<i, l>>]
        /\ \/ released[<<i, l>>]
           \/ delivery[<<i, l>>] \in {"RELEASED", "SCHEDULED"}
           \/ done[<<i, l>>] # {}}

Reorder(i, p, acknowledged) ==
    /\ Editing(i)
    /\ Live(i) # {}
    /\ p \in Orders(Live(i))
    /\ acknowledged \/ Disturbed(i, p) = {}
    /\ order' = [r \in Rows |-> IF r[1] = i /\ row[r] = "LIVE" THEN p[r[2]] ELSE order[r]]
    /\ UNCHANGED <<enrollVars, libraryVars, row, delivery, due, released, done, attaching>>

\* Mutant: completions are forgotten.
HasHistoryReleased(i, l) == released[<<i, l>>] \/ Visible(i, l)

HasHistory(i, l) == released[<<i, l>>] \/ Visible(i, l) \/ done[<<i, l>>] # {}

\* A lesson with history is retired as it stands, another is deleted with its
\* completions; the rest is numbered anew.
Remove(i, l) ==
    LET kept == HasHistory(i, l)
        at == <<i, l>>
    IN  /\ Editing(i)
        /\ l \in Live(i)
        /\ KeepsVisibleLesson(i, l, "GONE")
        /\ row' = [row EXCEPT ![at] = IF kept THEN "RETIRED" ELSE "NONE"]
        /\ delivery' = [delivery EXCEPT ![at] = IF kept THEN @ ELSE "UNRELEASED"]
        /\ due' = [due EXCEPT ![at] = kept /\ @]
        /\ released' = [released EXCEPT ![at] = kept /\ @]
        /\ done' = [done EXCEPT ![at] = IF kept THEN @ ELSE {}]
        /\ order' = [r \in Rows |->
              IF r = at THEN 0
              ELSE IF r[1] = i /\ row[r] = "LIVE"
                   THEN Rank(i, r[2]) - (IF Rank(i, r[2]) > Rank(i, l) THEN 1 ELSE 0)
              ELSE order[r]]
        /\ UNCHANGED <<enrollVars, libraryVars, attaching>>

\* Lessons that a delivery change would leave out of sequence.  Whether a lesson
\* scheduled earlier is available by a later date is left open.
Blockers(i, l, next) ==
    CASE next = "RELEASED" ->
           {m \in Live(i) : order[<<i, m>>] < order[<<i, l>>] /\ ~Visible(i, m)}
      [] next = "SCHEDULED" ->
           {m \in Live(i) : order[<<i, m>>] < order[<<i, l>>]
                            /\ delivery[<<i, m>>] \notin {"RELEASED", "SCHEDULED"}}
      [] next = "WITHDRAWN" ->
           {m \in Live(i) : order[<<i, m>>] > order[<<i, l>>]
                            /\ delivery[<<i, m>>] \in {"RELEASED", "SCHEDULED"}}
      [] OTHER -> {}

\* A schedule always names a date in the future.
UpdateDelivery(i, l, next, acknowledged) ==
    /\ Editing(i)
    /\ status[i] \in Core!Active
    /\ l \in Live(i)
    /\ next \in {"RELEASED", "SCHEDULED"} => library[l] = "READY"
    /\ KeepsVisibleLesson(i, l, next)
    /\ acknowledged \/ Blockers(i, l, next) = {}
    /\ delivery' = [delivery EXCEPT ![<<i, l>>] = next]
    /\ due' = [due EXCEPT ![<<i, l>>] = FALSE]
    /\ released' = [released EXCEPT ![<<i, l>>] = @ \/ next = "RELEASED"]
    /\ UNCHANGED <<enrollVars, libraryVars, row, order, done, attaching>>

\* The clock passes the date of a scheduled lesson, retired or not.
ComesDue(i, l) ==
    /\ row[<<i, l>>] # "NONE"
    /\ delivery[<<i, l>>] = "SCHEDULED" /\ ~due[<<i, l>>]
    /\ due' = [due EXCEPT ![<<i, l>>] = TRUE]
    /\ UNCHANGED <<enrollVars, libraryVars, row, order, delivery, released, done, attaching>>

CurriculumStep(i) ==
    \/ \E l \in Sessions, index \in 0 .. Cardinality(Sessions) : BeginAttach(i, l, index)
    \/ \E p \in Orders(Live(i)), ack \in BOOLEAN : Reorder(i, p, ack)
    \/ \E l \in Sessions :
          \/ Remove(i, l)
          \/ \E next \in DeliveryStates, ack \in BOOLEAN : UpdateDelivery(i, l, next, ack)
          \/ ComesDue(i, l)

-----------------------------------------------------------------------------
(* The classroom.                                                            *)

\* visibleCourseSessionWhere: a retired lesson stays.
Shown(i) ==
    {l \in Sessions : row[<<i, l>>] # "NONE" /\ Visible(i, l) /\ library[l] \in {"READY", "ARCHIVED"}}

HasLearningAccess(i, s) ==
    IF Core!Free(i) THEN payment[<<i, s>>] = "NOT_REQUIRED"
    ELSE payment[<<i, s>>] \in {"PARTIAL", "COMPLETED"}

\* What the classroom of s in i offers: nothing without access.
Classroom(i, s) ==
    IF /\ enrolled[<<i, s>>] \in {"ACTIVE", "COMPLETED"}
       /\ status[i] \in Core!Active \cup {"COMPLETED", "ARCHIVED"}
       /\ HasLearningAccess(i, s)
    THEN Shown(i) ELSE {}

\* The dashboard's "continue learning": the lessons of an ACTIVE enrollment that are
\* left to do.  It makes none of the checks of the classroom.
Continue(i, s) == IF enrolled[<<i, s>>] = "ACTIVE" THEN {l \in Shown(i) : s \notin done[<<i, l>>]} ELSE {}

\* assertCompletionMutationAllowed, under the locks of service, intake and enrollment.
MayChangeProgress(i, l, s) ==
    /\ attaching = Nothing
    /\ enrolled[<<i, s>>] = "ACTIVE"
    /\ status[i] \in Core!Active
    /\ HasLearningAccess(i, s)
    /\ l \in Shown(i)

\* A second completion, or one that loses the race for the unique row, is
\* answered with the row that is there.
Complete(i, l, s) ==
    /\ MayChangeProgress(i, l, s)
    /\ done' = [done EXCEPT ![<<i, l>>] = @ \cup {s}]
    /\ UNCHANGED <<enrollVars, libraryVars, row, order, delivery, due, released, attaching>>

Uncomplete(i, l, s) ==
    /\ MayChangeProgress(i, l, s)
    /\ done' = [done EXCEPT ![<<i, l>>] = @ \ {s}]
    /\ UNCHANGED <<enrollVars, libraryVars, row, order, delivery, due, released, attaching>>

ClassroomStep(i, s) == \E l \in Sessions : Complete(i, l, s) \/ Uncomplete(i, l, s)

-----------------------------------------------------------------------------
(* The enrolment core, one transaction at a time.                            *)

\* Completing an enrollment records the lessons the student did not check off.
Backfilled(i, s) ==
    [r \in Rows |->
        IF r[1] = i /\ enrolled[<<i, s>>] # "COMPLETED" /\ enrolled'[<<i, s>>] = "COMPLETED" /\ r[2] \in Shown(i)
        THEN done[r] \cup {s} ELSE done[r]]

SeatStep(i, s) ==
    /\ attaching = Nothing
    /\ UNCHANGED <<libraryVars, row, order, delivery, due, released, attaching>>
    /\ Core!SeatStep(i, s)
    /\ done' = Backfilled(i, s)

\* An intake with curriculum rows, retired ones included, is not deleted.
IntakeStep(i) ==
    /\ attaching = Nothing
    /\ UNCHANGED <<libraryVars, rowVars, attaching>>
    /\ Core!IntakeStep(i)
    /\ status'[i] = "NONE" => \A l \in Sessions : row[<<i, l>>] = "NONE"

CatalogStep ==
    /\ attaching = Nothing
    /\ UNCHANGED <<libraryVars, rowVars, attaching>>
    /\ \E next \in [Courses -> Core!CatalogStates] : Core!MoveCatalog(next)

-----------------------------------------------------------------------------
Next ==
    \/ \E l \in Sessions : LibraryStep(l)
    \/ \E i \in Intakes : CurriculumStep(i) \/ IntakeStep(i)
    \/ \E i \in Intakes, s \in Students : ClassroomStep(i, s) \/ SeatStep(i, s)
    \/ CommitAttach
    \/ AbortAttach
    \/ AbortRedraft
    \/ CatalogStep

Spec == Init /\ [][Next]_vars

-----------------------------------------------------------------------------
(* Properties.                                                               *)

\* The live lessons of an intake are numbered 0, 1, ... without gap or repeat
\* whatever is attached, retired, revived and reordered, and no renumbering
\* (attach, reorder, compact) passes through a state that the unique index on
\* (intake_id, order_index) refuses.
NumbersSurviveRenumbering ==
    \A i \in Intakes :
        /\ {order[<<i, l>>] : l \in Live(i)} = 0 .. Last(i) - 1
        /\ \A moved \in SUBSET Live(i) : Distinct(Moved(i, moved))
        /\ \A l \in Sessions : \A p \in Orders(Live(i) \cup {l}) : \A k \in 0 .. Last(i) :
              Distinct(Written(i, p, k))

Watchable(l) == library[l] \in {"READY", "ARCHIVED"} /\ recording[l]

\* What learners can watch they keep: publishing, editing, archiving, restoring and
\* deleting in the library never take a visible lesson or its recording away, except
\* through an update that found the session unused before it was attached.
WatchableLessonStays ==
    [][\A i \in Intakes, l \in Sessions :
        row[<<i, l>>] # "NONE" /\ Visible(i, l) /\ Watchable(l) /\ redrafting # l
            => Watchable(l)']_vars

\* Learning history belongs to the learner: a completion comes or goes only for an
\* active learner of an active intake, of a lesson shown, in a step that touches
\* neither library nor curriculum.  No attach, removal, reordering, delivery change,
\* due date or library edit adds or drops one; beside the learner only the
\* administrator who completes the enrollment writes any, and that one only adds.
CompletionsAreTheLearners ==
    [][\A i \in Intakes, l \in Sessions, s \in Students :
        (s \in done[<<i, l>>]) # (s \in done'[<<i, l>>]) =>
            /\ enrolled[<<i, s>>] = "ACTIVE" /\ status[i] \in Core!Active
            /\ l \in Shown(i)
            /\ UNCHANGED <<libraryVars, row, order, delivery, due, released, attaching>>
            /\ \/ UNCHANGED enrollVars
               \/ enrolled'[<<i, s>>] = "COMPLETED" /\ s \in done'[<<i, l>>]]_vars

\* The lesson a learner's dashboard sends them on to is one that the classroom
\* opens and lets them complete, although the two decide it by different rules.
ContinueLeadsOn ==
    \A i \in Intakes, s \in Students : \A l \in Continue(i, s) :
        /\ l \in Classroom(i, s)
        /\ attaching = Nothing => MayChangeProgress(i, l, s)

\* The rows implement the curriculum that the enrolment core assumes.
ImplementsIntakeEnrollment == Core!Spec

\* sessionLibrary.repository.js:177: "A session used by a course cannot return to
\* draft. Archive it to stop new use while preserving learner access."
LearnersKeepUsedSession ==
    \A i \in Intakes, l \in Sessions :
        row[<<i, l>>] # "NONE" /\ Visible(i, l) => library[l] # "DRAFT"

\* enrollment.repository.js:171-174: sessions are backfilled when an enrollment is
\* completed because its history becomes read-only "and would otherwise be
\* permanently stuck below 100% for no fixable reason".
CompletedLearnerIsAtFullProgress ==
    \A i \in Intakes, s \in Students : enrolled[<<i, s>>] = "COMPLETED" =>
        \A l \in Classroom(i, s) : s \in done[<<i, l>>]
=============================================================================
