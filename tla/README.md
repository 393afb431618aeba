# Foundry LMS API: a TLA+ verification project

The repository is an Express 5 / Prisma 7 / PostgreSQL API of a learning
management system. Its logic lives in `src/services/v1` (input checks, state
machines) and `src/repositories/v1` (transactions); what makes it hard is that
several administrators and students write the same rows at once, from any number
of server processes, and that PostgreSQL runs at READ COMMITTED. The program
protects itself with transaction-scoped advisory locks
(`repositories/v1/learning/transactionLock.repository.js`) and a discipline: a
service reads and decides outside any transaction, the repository takes a list of
locks, reads again, checks again, and writes.

Paths below are relative to the repository. "Model-checked" means by TLC on the
instances named; "proved" means by TLAPS for every value of the constants.

## Inventory

| Component | State | Operations | Talks to | Hard behaviour | What makes it correct |
|---|---|---|---|---|---|
| Catalog: services, categories, courses (`repositories/v1/catalog/{learningService,category,course}.repository.js`) | status of each level, policy of a service, slug, price, `archivedAt` of a course, derived `enrollment_status` | create, edit, publish, archive, restore, delete | intakes below it; public cache | the service layer acts on a row read before the transaction; archiving cascades and races with opening an intake below | price fits policy; an archived category is empty; nothing taught under an archived parent; the badge is current |
| Public catalog cache (`catalog/publicCatalogCache.service.js`) | pages of the public site | revalidate | catalog | best-effort call after the commit | hidden rows do not stay on the pages |
| Intakes (`catalog/intake.repository.js`, `intake.service.js`) | `status`, `capacity` | create, update, transition, delete | catalog, curriculum, enrollments, certificates | opening closes a sibling; cancelling cancels enrollments; completing reads three other tables | one open intake per course; finished intakes have no learner under way |
| Enrollments and payments (`enrollments/enrollment.repository.js`, `.service.js`) | `status`, `payment_status`, `payments` rows with amounts | createPaid, bulk, enrollFree, completePayment, update | intakes, users, curriculum, classroom | seat limit, stale reads, reactivation, price edits between two halves | history final, ledger consistent, amounts within the prices there were |
| Certificates (`enrollments/certificate.*`) | `certificates` rows | issue, revoke, verify, list | enrollments, intake completion | duplicate issue; revocation against completion; paging | one current certificate, only when earned |
| Enrolment requests (`enrollments/enrollmentRequest.*`) | `status`, `intake_id`, `enrollment_id` | file, contact, decline, reopen, convert | intakes, createPaid | conversion is a chain of separate transactions; `markEnrolled` takes no lock | an ENROLLED request has its own seat; answers follow the table |
| Transaction locks (`learning/transactionLock.repository.js`, `utils/prisma.js`) | advisory locks held to the end of a transaction | acquire | every repository | ordering, coverage, timeouts | no wait cycle; what was checked still holds at commit |
| Course curriculum (`courses/courseCurriculum.repository.js`) | `course_sessions`: order, delivery status, `available_at`, `retired_at` | attach, remove, reorder, deliver; lessons come due by the clock | intakes, session library, completions | order indexes rewritten under a unique index; attach reads a session without its lock; a lesson becomes visible without a write | numbers without gap or repeat at every statement; an open free intake shows a lesson |
| Session library (`sessions/sessionLibrary.*`) | sessions, recording | create, edit, back to draft, archive, restore, duplicate, delete | curriculum | an unused session may be attached while it is being returned to draft | what learners can watch stays watchable |
| Classroom (`learning/classroom.*`) | `session_completions` | list, complete, undo, backfill | enrollments, curriculum | completion against retirement, delivery and the end of an enrollment | history is the learner's own; the dashboard leads to a lesson the classroom opens |
| Student projects (`projects/*`) | status, `is_public` | submit, review, edit, list, showcase | enrollments | reviewed on a page fetched earlier; rows enter and leave between two pages | the showcase holds what was reviewed; paging misses nothing |
| Authentication (`auth/*`, `middlewares/authenticate.js`) | reset tokens, e-mail codes, login challenges, `security_version` | register, verify, log in, reset, log out, clean up | users | tokens signed from rows read earlier; two different lock keys for one challenge | a challenge signs once, a reset link sets one password; attempts bounded; no session outlives what it was signed for |
| User roles (`services/v1/users/user.service.js`) | `users.role` | promote, demote | enrolment eligibility, sessions | takes no lock | a session ends with the role it was signed for |
| Dashboard (`dashboard/dashboard.repository.js`) | none | revenue, analytics, trends, delivery, next lesson | everything | several queries without a transaction; months counted back from the 31st | figures that belong together add up |
| User activity, audit, e-mail, HTTP layer, configuration | log rows | append, read | everything | best effort | none of its own |

The hazards behind this table, each at its line, are the `hazards` of
`PROJECT.json`.

## Modules

| Module | Models | How it is used | Proofs |
|---|---|---|---|
| `CatalogView` | how a course looks through the rows above it, and whether it is being taught | abstract; implemented from above by `CatalogTree` and from below by `IntakeEnrollment` | |
| `IntakeEnrollment` | intakes, curriculum visibility, catalog state, enrollments, payments, certificates; one action per committed transaction | the abstract specification of the enrolment core | `IntakeEnrollmentProofs` |
| `LockedEnrollment` | the same operations as pre-check / locks / re-check / commit of concurrent workers, with refusals, aborts, role changes and the clock | implements `IntakeEnrollment` | `LockedEnrollmentProofs` |
| `EnrollmentRequests` | the request workflow on top of the core | extends `IntakeEnrollment`; every step is one of its steps or none | `EnrollmentRequestsProofs` |
| `PaymentLedger` | amounts, price edits, the dashboard's figures and trends | extends `IntakeEnrollment`; every step is one of its steps or none | `PaymentLedgerProofs` |
| `LessonDelivery` | session library, curriculum rows, classroom | instantiates `IntakeEnrollment` with `curriculum` read off the rows, and implements it | `LessonDeliveryProofs` |
| `CatalogTree` | services, categories, courses and the cached public pages | implements `CatalogView` | `CatalogTreeProofs` |
| `ReviewDesk` | student projects, their review, and paged lists of projects and certificates | stands alone | `ReviewDeskProofs` |
| `AccountSessions` | one account: its e-mail codes, login challenges, reset links, sessions and role | stands alone | `AccountSessionsProofs` |
| `MC*` | the instances TLC checks | | |

The refinements fit together: what is proved of the core holds of the workers with
their locks, of the request desk, of the ledger and of the lesson rows; and the
core and the catalog keep the two halves of one contract, `CatalogView`.

    CatalogTree --> CatalogView <-- IntakeEnrollment <-- LockedEnrollment
                                                     <-- EnrollmentRequests
                                                     <-- PaymentLedger
                                                     <-- LessonDelivery

A definition preceded by "Mutant:" is a plausible bug in the code its neighbour
models. No specification uses it; `PROJECT.json` names the property that notices
when it takes the neighbour's place.

### IntakeEnrollment

One committed transaction is one action, written as a pair: `May...` is what the
repository checks once its locks are held, `Write...` is what it writes, and
`LockedEnrollment` uses the two halves at two different moments.

| Variable | In the code |
|---|---|
| `catalog[c]` | the chain service/category/course above an intake: PUBLIC (service ACTIVE, category PUBLISHED, course not archived), ARCHIVED (one of them archived) or HIDDEN |
| `badge[c]` | `courses.enrollment_status`, written by `recomputeCourseEnrollmentStatus` |
| `status[i]`, `capacity[i]` | columns of `intakes`; `"NONE"` is a row that does not exist |
| `curriculum[i]` | what the non-retired `course_sessions` show: none, none visible, some, all |
| `enrolled[<<i,s>>]`, `payment`, `paid`, `issued` | the enrollment of `s` in `i` (unique by `userId_intakeId`), its payment status, its `payments` rows counted in halves of the price, its ISSUED certificates |

A service's policy fields are immutable after its first category
(`learningService.repository.js:148-151`), so a course is free (FREE, EVERGREEN,
SELF, NOT_REQUIRED) or paid (PAID, SEASONAL, ADMIN, REQUIRED) for good: `FreeCourses` is a
constant. So is `CertifiedCourses`: `updateCourseSchema` omits
`certificateEnabled`. `Seeded` holds evergreen intakes whose rows were written
directly, as `prisma/seed.js` does: the API cannot open one (see the findings).
`MoveCatalog` lets the catalog of any number of courses change at once, under the
one check the three archive operations share; `LockedEnrollment` restricts it to
what a service, category or course call really changes. `ImplementsCatalogView`
maps an intake that is OPEN_ACTIVE or CLOSED_ACTIVE to a course being taught.

### LockedEnrollment

A worker `Begin`s a call after the service's own checks (made outside any
transaction, on whatever it reads then), `Acquire`s the keys of the call's `Plan`
one at a time in the order of the code, passes or fails the repository's `Check`,
and `Commit`s, which releases the locks. `Abort` may strike at any moment:
statement timeout, the 15-second transaction timeout of `utils/prisma.js`, a lost
process. Between check and commit the model leaves a gap in which other workers
run, which is what READ COMMITTED allows. Roles change without a lock and the
clock makes scheduled lessons due. `ImplementsIntakeEnrollment` is the
specification of `IntakeEnrollment`, whose variables this module carries
unchanged: the refinement mapping is the identity on them and hides `role`,
`request`, `seen`, `got` and `checked`. A request of the model carries an
enrollment as the pair of intake and student, which is its unique key.

### EnrollmentRequests

`Create` is one transaction under the lock of this student and course. A status
change reads the row first (`ReadForUpdate`), then checks it under the request's
lock (`CheckUpdate`) and writes (`WriteUpdate`); the gap between the last two is
there because `markEnrolled` takes no lock and so may commit in it. A conversion is a
chain: read, resolve the open intake, retarget, `Enroll` (the `CreatePaid` of the
core), `MarkEnrolled`. `GiveUp` cuts it anywhere: a refusal, an error, a crash.

### PaymentLedger

`rows[e]` are the `payments` rows of an enrollment with their amounts in cents.
Each payment action of the core is joined with the row it writes at the price of
that moment: `PayInFull` (less the discount), `PayHalf` and `TopUp` (half a cent
rounded up, as `numeric(12, 2)` does). `SetPrice` may come between any two of them;
`span[e]` remembers, for the properties, the prices an open payment has seen.
`ReadRevenue` and `ReadPayable` are two queries of the dashboard's `Promise.all`,
with anything in between; a report torn by a commit there is modelled, and what it
shows is not claimed (`ReportBalances` is about the others). `AskTrend` is `resolveTrendWindow` and
`seedMonthBuckets`: months counted back with `setUTCMonth`, whose overflow
`MonthsBack` models by the lengths of the months. `Analytics` are the figures of a
course or an intake, `PaymentAttention` the administrators' list of open halves.

### LessonDelivery

| Variable | In the code |
|---|---|
| `library[l]`, `recording[l]` | `sessions.status`, and whether there is a recording URL |
| `row[<<i,l>>]` | a `course_sessions` row: none, live, or retired (`retired_at`) |
| `order`, `delivery`, `due`, `released` | `order_index`, `delivery_status`, `available_at` has passed, `first_released_at` is set |
| `done[<<i,l>>]` | students with a `session_completions` row (only the classroom, and the administrator who completes an enrollment, write it) |
| `attaching`, `redrafting` | the two transactions that read a session without the lock that guards it |

Every curriculum, intake, enrolment and classroom transaction starts with the lock
of the learning service and is one step. Library transactions do not take that
lock, and attach does not take the session's: `BeginAttach`/`CommitAttach` and
`BeginRedraft`/`CommitRedraft` are a read and a commit each, and interleave.
`Summary` turns the rows into the `curriculum` of the core, which is instantiated
as `Core`; its intake, seat and catalog actions run here unchanged, and every
change of rows has to be one of its curriculum moves (`ImplementsIntakeEnrollment`).
A completion of an enrollment backfills the lessons not checked off
(`Backfilled`). `Moved` and `Written` are the two intermediate states of a
renumbering: some rows pushed beyond an offset, some already at their new number.

### CatalogTree

Every catalog transaction takes the lock of its learning service first and is one
step. What interleaves is the service layer around it: `call[a]` is where the call of
administrator `a` stands, with what it has read (`ReadService`, `ReadCategory`,
`ReadToArchive`, `ReadToCreate`, `ReadCourse`), and `Revalidate` is the best-effort
call to the public site after the commit, which arrives or is lost (`lost`). `Fill`
and `Expire` are the public site's cache, external to the repository: `page` is what
it shows, and `late`, a history variable, the categories archived since it was filled
by a call that had read them unpublished. `MoveIntakes` is what the rest of the
program does below a course.

### ReviewDesk

`created[t]` lists the rows of a table in the order of `createdAt`. A list is
fetched page by page (`OpenList`, `NextPage`): the row cursor of Prisma for
projects (`AfterRow`: from the cursor's place on, less the first), the keyset
cursor of certificates (`AfterKey`), or an offset (`AfterOffset`). `Review` acts on
a project some page has shown, whatever has become of it; `Edit` is allowed while
the project is PENDING. `list.fresh` and `list.steady` remember, for the
properties, what has not been edited since it was shown and what matched all along.

### AccountSessions

Every row, lock and token of this part belongs to one account, so the module has one.
`account` is its row in `users`; `table[kind]` the rows of `email_otps`,
`login_challenges` and `password_reset_tokens` in the order of `createdAt`;
`account.password` the reset links redeemed so far, in order, so that a link redeemed
twice would show; `sessions` the tokens signed; `call[c]` is where a request stands
and what it has read. The three functions that replace an artifact have the same body,
modelled once: `Retire` (lock taken, open rows marked, not yet committed, so their row
locks hold off `VerifiedChallenge`, `WrongCode` and `CleanUp`) and `Insert` (the new
row and the commit). A verification reads under its lock (`VerifyOtp`,
`VerifyChallenge`) and commits (`VerifiedOtp`, `VerifiedChallenge`, `WrongCode`); a
reset finds the link (`ResetPassword`) and then decides under the lock
(`CommitReset`). `Login` reads the account, `Sign` signs what was read. The row states
`consumed` and `retired` are one thing in the database, a non-null `usedAt` or
`verifiedAt`; no guard tells them apart and only a property does. `Bootstrap` is
`prisma/bootstrap-super-admin.js`, which changes a role without raising
`securityVersion`; the check of the role in `authenticate` is what still holds then,
and `AcceptedUnderRole` names the exception. A login challenge is not tied to the
password it was opened with: a reset retires no challenge, and `AcceptedUnderPassword`
is about sessions opened with a password only.

The account and the challenge that `verifyLoginChallenge` reads with one
`findUnique` are read in one step, and so are the two statements of a clean-up: the
rows it finds are used or expired and stay so.

## Runs

States are distinct states (a run that finds a violation stops there).

| Run | Instance | Checks | States |
|---|---|---|---|
| `intake_enrollment` | 1 paid, certified course, 2 intakes, 2 students, capacity 1 or none | type, six invariants, two action properties of the core, and that it implements `CatalogView` | 765,672 |
| `evergreen_intake` | 1 free course, 2 intakes (one seeded), 2 students | the invariant that concerns free courses only | 975 |
| `locked_enrollment` | 2 workers, 21 calls on 1 paid intake, 2 students | stability of every check until commit, refinement of the core | 1,627,433 |
| `locked_evergreen` | 2 workers, free course, 1 student who may be promoted | no wait cycle; every call ends | 65,868 |
| `enrollment_requests` | 2 requests of 1 student, 2 workers, 2 intakes | an enrolled request has its seat; a second open request comes only from an administrator's answer | 1,011,641 |
| `account_sessions` | 1 account, 2 calls at a time, 2 artifacts of a kind, 2 sessions, 4 of them together, 1 wrong code, 2 version changes | one session per challenge, one password per reset link, guess limit, sessions against password, role and version | 5,343,468 |
| `catalog_tree` | 1 service, 2 categories, 1 course, 2 overlapping calls of administrators | rows, prices against policies, archive cascades, public pages, refinement of `CatalogView` | 1,728,237 |
| `lesson_delivery` | 1 evergreen intake, 1 student, 2 sessions | numbering, the dashboard's next lesson, what learners keep, refinement of the core | 305,680 |
| `review_desk` | 3 projects, 2 certificates, pages of one row | paging in all its modes; the showcase | 1,492,228 |
| `payment_ledger` | 1 paid course, 1 intake, 2 students, an odd and an even price, discount 3, trends of 2 and 6 months asked for on 29 March of two years | amounts, revenue figures, analytics, trend months | 2,075,367 |
| `evergreen_never_opens` | 1 free course, 1 intake, 1 student | finding 1 | 63 |
| `reviewed_unseen` | that of `review_desk` | finding 2 | 6,504 |

### What they show

- *Locks.* `GuardHoldsUntilCommit`: every call's plan of locks covers all that its
  decision reads, so nobody can make it false between check and commit, and
  (`ImplementsIntakeEnrollment`) concurrent calls behave as if each ran alone at
  its commit. `NoWaitCycle` and `EveryCallEnds`: the plans never wait in a circle.
- *History.* `HistoryIsFrozen`, `NoActiveLearnerInFinishedIntake`,
  `CompletedIntakeIsFinished`, `CertificateIsEarned`, `CompletionsAreTheLearners`: what
  a finished intake says of its learners stays true, whatever is edited later, and no
  edit of library or curriculum adds or drops a completion of any learner.
- *Two halves of a contract.* Opening an intake and archiving above it exclude each
  other: `ImplementsCatalogView` from both sides.
- *Stale reads.* `PriceMatchesPolicy`: a price checked against a policy read before the
  transaction still fits, because a policy is fixed once there is a category.
  `StaleOnlyByLateArchive`: what stays on the public pages although it is hidden
  and the site was reached lies in a category that was archived, since the pages were
  filled, by a call that had read it unpublished. Every other unpublication, archive or
  transition of services, categories and courses renews the pages.
- *Numbers.* `NumbersSurviveRenumbering`: attach, reorder and compaction never pass
  through a repeated order index, at any statement of the rewrite.
- *Rules stated twice.* `ContinueLeadsOn`: the dashboard's choice of the next lesson and
  the classroom's rules of access agree. `RollupsAgree`: the breakdowns shown of a
  course, an intake or a service add up to their totals, and the open halves they
  count are those of the administrators' attention list.
- *Money.* `PaidWithinPrices`: whoever has paid everything has paid a price the course
  had while the payment was open. `ReportBalances`: revenue still expected is what
  is owed, when nothing was committed between the two queries and prices stood.
  `TrendCoversItsMonths`: a trend has a bar for each month, but on a day its first
  month does not have, where that month is missing.
- *Paging.* `PagingMissesNothing`, in three modes, says exactly when a page skips or
  repeats a row: never with the keyset cursor, else only when the rows already
  passed have moved.
- *Sign-in.* Of each kind only the newest artifact is open (`OneOpenArtifact`). A login
  challenge signs one session (`ChallengeSignsOnce`); a reset sets the password only
  through the newest link and that link's first use (`NewestLinkResets`). Of e-mail
  codes no single use is claimed. Guesses are bounded although verifications overlap;
  no session outlives the password, role or version it was signed for.

### Bounds, and why they are enough

Every invariant of the core speaks about at most two intakes of one course or two
learners of one intake, and no operation touches two courses' intakes, so two of
each let every pair interact; capacity 1 with two students is the smallest
instance with a last seat. Two workers are enough for every check-then-act race,
which has one victim and one intruder; the proof of `NobodyWaitsInACircle` covers
any number of them. `paid` and `issued` need no bound: they stay at most 2 and 1, which
`LedgerMatchesPaymentStatus` and `CertificateIsEarned` state. The calls of the
locked runs (`PaidCalls`, `EvergreenCalls`) are chosen to walk a seat through its
whole life while the rows above it are closed, cancelled, completed and archived.
In `account_sessions` a race has again one victim and one intruder. `MaxRows` 2
gives an artifact and its replacement, `MaxAttempts` 1 makes the guess that locks a
code the first one, `MaxVersion` 2 lets a second change overtake a first, and
`MaxRecords` bounds artifacts and sessions together. `catalog_tree` has two
categories because the policy of a service depends on how many it has, and two
calls because a stale read needs one that overtakes it. `lesson_delivery` has two
sessions, the least that can be reordered; the numbering of more is proved. Pages
of one row are the hardest for a cursor: every row is the last of its page. Two
prices, one odd, show the rounding of half a cent; 29 March is the day whose
February depends on the year, and every other day is covered by the proof.
No bound of the checked instances enters the proofs, but for `Days` and
`Lookbacks`, whose assumption is the range of the calendar and of the query's schema.

Symmetry is used for students, workers, calls, requests, administrators, projects,
certificates, and the intakes of a paid course, which nothing tells apart, never in
a run that checks liveness.

`CHECK_DEADLOCK FALSE` appears in `enrollment_requests` and `account_sessions`: the
rows that may be created are bounded there, so a run that has used them up ends.

## Fairness

`FairLockedSpec`: a worker that can check or commit does (weak fairness of
`Decide`), and a lock that is free again and again is obtained (strong fairness of
`Acquire`; PostgreSQL queues the waiters of an advisory lock, so this is weaker
than what it guarantees). No fairness is assumed of `Begin` (clients), `Abort`
(timeouts), `SetRole` or `Clock`, so `EveryCallEnds` does not count on a timeout.

`FairSpec` is used only to state `DraftIsOpened`: administrators who keep
publishing the course, attaching and releasing lessons and opening the intake
whenever the code lets them. It is strong fairness on purpose, the most favourable
assumption, since the run shows that even this does not help.

## What is proved

Each `...Proofs` module proves its theorems for every value of the constants, from
the named assumptions of the module it extends: finite sets of students, requests,
categories and sessions and, for payments, of intakes (they are counted or summed),
rows that belong to the rows above them, and values that are not mistaken for one
another. `LockAssumption` also says that the courses locked under a category are
those of the category. The theorems are listed in `PROJECT.json`.

*`IntakeEnrollmentProofs`.* The invariants are not inductive one by one. `IInv` joins
them with `TypeOK` and `NoSeatBeforeOpening` (an intake that was never opened has no
enrollment). They lean on one another: that a deleted or never-opened intake has no
learner needs `NoSeatBeforeOpening`; that a completed intake keeps its lessons needs
that its curriculum is frozen; that a certificate stays earned needs that a completed
enrollment never changes; that opening an intake leaves only one open needs the
sibling to be of the same course. `InvStep` has one lemma per kind of operation.
`CompletionIsPaid` (a completed enrollment has nothing left to pay) is inductive
relative to `IInv` and proved after it (`CompletedMeansPaid`).
`HistoryStaysFrozen` follows from `FrozenStep`, and `OversellingNeedsReturn` from
`OversoldStep`, which counts the learners before and after a step. `CoreImplementsView`
follows from `TeachingMoves`: only an opening, of a public course, adds to the
courses being taught.

*`LockedEnrollmentProofs`.* `LInv` joins the types of core and locks with `Exclusion`
(no key is held twice), `Decided` (a checked call holds its whole plan) and
`GuardsHold`. Two checked transactions hold disjoint plans, so they touch independent
rows, so neither disturbs the other's guard; hence `GuardsSurvive`, hence a commit
is an action of the core (`LocksAreEnough`), hence all of the core's invariants
(`LockedKeepsTheCore`). `NobodyWaitsInACircle`: a certificate call that holds its
intake waits for nobody, and two other calls that hold something work under
different services, so a chain of waits has at most two members.

*`EnrollmentRequestsProofs`.* `RInv` adds to the types and to
`EnrolledRequestHasItsSeat` what each call in flight may rely on (`CallsInOrder`): in
particular the paid seat that a conversion has taken and not yet linked. Then every
step is a step of the core or none. A request becomes open beside another only by
`WriteUpdate`: an answer that reopens a declined row, or one whose row a conversion
marked ENROLLED between its check and its write (`AnsweredOnly`). `AnswersInFlight`,
which this needs, says that a checked answer still finds its row as it was checked, or
ENROLLED: the request's lock keeps other answers out, `markEnrolled` takes none.

*`PaymentLedgerProofs`.* `LedgerSpec => Spec`, so money moves no seat in a way the core
does not allow, and the core's invariants hold of it. What is paid, owed or counted
is a sum over rows or seats, written with the community modules' fold. The fold is a
recursive function chosen by `CHOOSE`; that it computes a sum for every finite set
is proved first. The provers cannot instantiate an induction theorem with a
predicate, but they can instantiate one with a set: `LeastSubset` (a collection of
subsets of a finite set has a smallest one, from the well-foundedness of strict
inclusion) gives `SetInduction`, where the induction hypothesis is the set of the
subsets it holds of. From it follow that the fold satisfies its recursion
(`SumUnfold`), that its order of choice does not matter (`SumWithout`), and that sums
add, compare and count (`PlusSums`, `SumsCompare`, `SumOfPart`, `OnesCount`).

The inductive invariant of the rows is `RowsInv`: an enrollment that pays in halves
has one PARTIAL row, one that has paid everything has one FULL row or a PARTIAL and
a TOP_UP row, and each amount is that of a price in `span`. It holds of every step
whatever is done to the price (`RowsNext`), and `PaymentsStayWithinPrices` is its
arithmetic; `DeletionLosesNoPayment` joins it with `NoSeatBeforeOpening`.

`FiguresAgree` compares the figures enrollment by enrollment and sums; it needs the
core's invariants and one more, `CompletionIsPaid`, without which a learner marked as
completed could hide an open half from the attention list. For `ReportsBalance`,
`Current` says that a report that nothing has torn still shows what the tables hold.
Then, enrollment by enrollment, what is payable is at most what was collected and
what is owed together; and falls short of that by a cent at most, unless the
learner has cancelled or has paid in two halves, which forfeits the discount.

`ReportInv` says that a trend carries the `Bars` of its day; the rest is arithmetic
on months for every day and lookback (`TrendsAreWhole`).

*`LessonDeliveryProofs`.* `DInv` joins the types, the core's `IInv` and two facts: an
attach under way holds an editable intake, and only an intake that was active has a
scheduled lesson. With them each change of rows is an attach, remove, delivery or
due move of `Summary`, or none (`RowsImplementTheCore`). From the core's invariants
follow `DashboardLeadsOn`, `LearnersKeepWatching` and `HistoryIsTheLearners`. `NumInv` says
that the numbers of the live lessons are a permutation of 0 .. n - 1 and that the
index of an attach is in range: then a lesson's rank is its number, insertions and
removals keep permutations (`OrderInserts`, `OrderCloses`), and the offset exceeds every
number in use (`NumbersHold`).

*`CatalogTreeProofs`.* `IInv` is `TypeOK`, `CallsFit` (what a call has read and still
relies on), `PriceMatchesPolicy`, `ArchivedCategoryIsEmpty` and `PagesExplained` (what is hidden and
still shown is late, or its revalidation is lost or under way). A service
with a category keeps its policy, and a course has a category: so a price that
fitted when it was read fits when it is written. `TreeImplementsView` shows that
every step moves the catalog without leaving a taught course behind, and
`NobodyIsLeftBehind` follows from the view alone.

*`ReviewDeskProofs`.* `DeskInv`: a project that is not PENDING has not been edited since
its review. `PageInv`: a table lists each row once and only grows, so a row keeps its
place; until something has moved, the rows shown are those at or above the cursor,
or the first ones by offset, as far as they were steady.

*`AccountSessionsProofs`.* `AInv`: an open artifact is the newest of its kind, what a
call has read still holds at each of its points as far as its locks guarantee, calls
exclude each other where they share a lock, a session of the current version was
signed for the current password and role, a consumed challenge has signed at most
once, and every link the password names is used up (`RedeemedAreUsedUp`). The two
action properties follow from what a commit may rely on.

### Only model-checked

- Liveness (`EveryCallEnds`, `DraftIsOpened`): fairness is stated with `ENABLED`, which
  is outside the prover's reach.

Every other property that a passing run checks is also proved.

## Findings

Each with a run whose counterexample is the schedule; `PROJECT.json` quotes the lines.

1. `evergreen_never_opens`: opening a free intake needs a released lesson, and
   releasing one needs an active intake. The seed gets round it by writing the rows.
2. `reviewed_unseen`: a review takes no version, so it approves, and may publish, an
   edit that was committed after the administrator's page was fetched.

### Other claims the code does not keep

Stated in the modules beside what does hold, each with the line it quotes. None is
part of a run; put in the cfg named, with nothing else to check, TLC finds the schedule.

| Definition | Claim | Schedule | cfg |
|---|---|---|---|
| `IntakeEnrollment.SeatsWithinCapacity` | `Errors.js:69-70`, `intake.repository.js:154`: no more learners than seats | the last seat is cancelled, taken by another, and reactivated (`enrollment.repository.js:166` does not count) | `MCIntakeEnrollment` |
| `LockedEnrollment.OnlyStudentsTakeSeats` | only student accounts can be enrolled | a promotion between the role read at `enrollment.repository.js:69` and the write of `enrollFree` (109-148) | `MCLockedEvergreen` |
| `EnrollmentRequests.OneOpenRequest` | `enrollmentRequest.repository.js:60-61`: one open request per course | decline, file again, reopen; or, while a request is being contacted, its conversion and a new request between check and write | `MCEnrollmentRequests` |
| `EnrollmentRequests.EnrolledIsTerminal` | `enrollmentRequest.service.js:20-21` | `markEnrolled` (115-121, no lock) commits between check and write of `updateStatus` | `MCEnrollmentRequests` |
| `EnrollmentRequests.LinkIsPermanent` | `schema.prisma:471`: permanent audit trail | two conversions of one request in two intakes | `MCEnrollmentRequests` |
| `CatalogTree.PublishedSlugStays` | `category.service.js:83`: slugs of published categories are immutable | a publication between the read and the write of an update (two slugs) | `MCCatalogTree` |
| `CatalogTree.WritesRenewThePages` | `publicCatalogCache.service.js:6` | a publication between the read and the write of an archive | `MCCatalogTree` |
| `LessonDelivery.LearnersKeepUsedSession` | `sessionLibrary.repository.js:177`: a used session cannot return to draft | attach and release between the check and the commit of the return | `MCLessonDelivery` |
| `LessonDelivery.CompletedLearnerIsAtFullProgress` | `enrollment.repository.js:171-174` | a lesson released after the enrollment was completed | `MCLessonDelivery` |
| `PaymentLedger.RevenueToComeIsOwed` | `dashboard.repository.js:377-381` | a payer in two halves is COMPLETED without the discount, which hides another's debt | `MCPaymentLedger` |

`EnrolledRequestHasItsSeat`, `SecondOpenOnlyByAnswer`, `AnswersFollowTheTable`,
`OversoldOnlyByReturn`, `StaleOnlyByLateArchive`, `WatchableLessonStays` and
`ReportBalances` say what still holds around them.

Observed while reading, and not stated as properties: the progress and completion
percentages of the dashboard can exceed 100 (`dashboard.repository.js:271-294`); a
used session that went to draft as above, lost its recording and was archived can
be neither restored (`sessionLibrary.repository.js:236-240`) nor edited (172-174);
`prisma/seed.js` and `backfillPayments.js` use `courseGroup` and `batchCodePrefix`,
which the schema no longer has; `project.repository.update` and `remove` and
`certificate.repository.update` have no caller; `likeCount` is never written. A crash
between `createPaid` and `markEnrolled` leaves a paid seat and an open request that a
retry cannot convert ("already enrolled"): `GiveUp` after `Enroll` reaches it, and
nothing in the repository says it must recover.

## Not modelled

- Lock keys are distinct; `hashtext` maps them to 32 bits and may merge two.
- `emailVerified`: an account, once verified, stays so, hence eligibility is the
  role alone.
- Authority checked by `authenticate` and used later: a role may change while the
  handler it admitted still runs. Each module that depends on a role reads it where
  its own code does.
- Whether an enrollment allows a project to be submitted: `ReviewDesk.Submit` lets it
  happen whenever there is none, which includes every state the checks admit.
- Dashboard: counts, top lists, delivery cards, heat map and custom date ranges are
  single queries without a state of their own. The listing of the session library,
  texts, titles, pictures and links other than the recording.
- The statements behind one Prisma query: `ReadPayable`, whose query selects the course
  of each enrollment, may be two SQL statements and is one read here.
- The DRAFT and CANCELLED intakes, without history, that the permanent removal of a
  category deletes with it (`category.repository.js:148`): `MoveCatalog` leaves them.
- Hashes, mail delivery and the one-day expiry of a session token.
- User activity (read-only lists), audit (a best-effort append after the commit, an
  accepted limitation in the repository's own README), e-mail, configuration, routing,
  validation of formats, rate limits: no protocol state, or best-effort output.
- Seed data, Postman generation and one-off scripts: data and tools, not the program.
