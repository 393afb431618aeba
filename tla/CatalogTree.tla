----------------------------- MODULE CatalogTree -----------------------------
(***************************************************************************)
(* The catalog as its rows: learning services, their categories, their     *)
(* courses, and the public pages the Next.js site caches of them.          *)
(*                                                                         *)
(* Every transaction takes the advisory lock of its learning service       *)
(* first, so a transaction is one step.  What interleaves is the code of   *)
(* the service layer around it: an administrator's call may act on a row   *)
(* read before the transaction, and tells the public site afterwards.      *)
(* call[a] is where the call of administrator a stands: "idle", in one of  *)
(* the operations below with what it has read, or "revalidate" once it has *)
(* committed.  A check that the service makes on its first read and the    *)
(* repository repeats under the lock appears once, under the lock.         *)
(*                                                                         *)
(* Row ids are never reused: a deleted row is "GONE" for good.             *)
(***************************************************************************)
EXTENDS Naturals, FiniteSets

CONSTANTS
    Services, Categories, Courses,
    ServiceOf,   \* the service of a category (immutable)
    CategoryOf,  \* the category of a course (immutable)
    Slugs,
    Admins,      \* concurrent calls
    Same,        \* a field left out of an update
    NoRow, NoPage

ASSUME TreeAssumption ==
    /\ IsFiniteSet(Categories)
    /\ ServiceOf \in [Categories -> Services]
    /\ CategoryOf \in [Courses -> Categories]

ASSUME ValueAssumption == Same \notin Slugs

VARIABLES
    service,   \* per service: learning_services.status
    access,    \* per service: its policy, one of the two supported combinations
    category,  \* per category: categories.status
    slug,      \* per category: categories.slug
    course,    \* per course: LIVE or ARCHIVED (archived_at)
    price,     \* per course: "ZERO" or "CHARGED"
    intakes,   \* per course: none, all unused, some with history, one active
    call,      \* per administrator: the call under way
    page,      \* what the public site has cached, or NoPage
    lost,      \* a revalidation has failed since the page was filled
    late       \* categories hidden, since the page was filled, by an archive that
               \* had read them unpublished (observes the calls, guards none)

tree == <<service, access, category, slug, course, price, intakes>>
cache == <<page, lost, late>>
vars == <<tree, call, cache>>

ServiceStates == {"NONE", "DRAFT", "ACTIVE", "ARCHIVED", "GONE"}
CategoryStates == {"NONE", "DRAFT", "PUBLISHED", "ARCHIVED", "GONE"}
CourseStates == {"NONE", "LIVE", "ARCHIVED", "GONE"}
IntakeSets == {"NONE", "UNUSED", "HISTORY", "ACTIVE"}
Policies == {"PAID", "FREE"}
Prices == {"ZERO", "CHARGED"}
Absent == {"NONE", "GONE"}

Ops == {"idle", "revalidate", "service", "category", "archive", "create", "course"}
Idle == [op |-> "idle", at |-> NoRow, to |-> Same, public |-> FALSE]
Owes == [op |-> "revalidate", at |-> NoRow, to |-> Same, public |-> TRUE]

Calls ==
    [op : Ops, at : {NoRow} \cup Services \cup Categories \cup Courses,
     to : {Same} \cup Policies \cup Slugs \cup Prices, public : BOOLEAN]

Under(s) == {k \in Categories : ServiceOf[k] = s}
In(k) == {c \in Courses : CategoryOf[c] = k}
Above(c) == ServiceOf[CategoryOf[c]]
CategoryCount(s) == Cardinality({k \in Under(s) : category[k] \notin Absent})

\* The rows that exist hang together: foreign keys with ON DELETE RESTRICT.
TypeOK ==
    /\ service \in [Services -> ServiceStates]
    /\ access \in [Services -> Policies]
    /\ category \in [Categories -> CategoryStates]
    /\ slug \in [Categories -> Slugs]
    /\ course \in [Courses -> CourseStates]
    /\ price \in [Courses -> Prices]
    /\ intakes \in [Courses -> IntakeSets]
    /\ page \in [categories : SUBSET Categories, courses : SUBSET Courses] \cup {NoPage}
    /\ lost \in BOOLEAN /\ late \subseteq Categories
    /\ call \in [Admins -> Calls]
    /\ \A k \in Categories : category[k] \notin Absent => service[ServiceOf[k]] \notin Absent
    /\ \A c \in Courses : course[c] \notin Absent => category[CategoryOf[c]] \notin Absent
    /\ \A c \in Courses : course[c] \in Absent => intakes[c] = "NONE"

Init ==
    /\ service = [s \in Services |-> "NONE"]
    /\ access \in [Services -> Policies]
    /\ category = [k \in Categories |-> "NONE"]
    /\ slug \in [Categories -> Slugs]
    /\ course = [c \in Courses |-> "NONE"]
    /\ price = [c \in Courses |-> "ZERO"]
    /\ intakes = [c \in Courses |-> "NONE"]
    /\ call = [a \in Admins |-> Idle]
    /\ page = NoPage
    /\ lost = FALSE /\ late = {}

-----------------------------------------------------------------------------
(* What the public endpoints serve.                                          *)

PublicCategories ==
    {k \in Categories : category[k] = "PUBLISHED" /\ service[ServiceOf[k]] = "ACTIVE"}

PublicCourses == {c \in Courses : course[c] = "LIVE" /\ CategoryOf[c] \in PublicCategories}

\* How a course looks from below: the states of CatalogView.
Look(c) ==
    IF \/ course[c] \in {"ARCHIVED", "GONE"}
       \/ category[CategoryOf[c]] \in {"ARCHIVED", "GONE"}
       \/ service[Above(c)] \in {"ARCHIVED", "GONE"}
    THEN "ARCHIVED"
    ELSE IF c \in PublicCourses THEN "PUBLIC" ELSE "HIDDEN"

Busy == {c \in Courses : intakes[c] = "ACTIVE"}

-----------------------------------------------------------------------------
(* The course of a call.                                                     *)

Read(a, op, at, to, public) ==
    /\ call[a] = Idle
    /\ call' = [call EXCEPT ![a] = [op |-> op, at |-> at, to |-> to, public |-> public]]
    /\ UNCHANGED <<tree, cache>>

\* The transaction of a has committed; a goes on to tell the public site if it has reason to.
Told(a, public) == call' = [call EXCEPT ![a] = IF public THEN Owes ELSE Idle]
Committed(a, public) == Told(a, public) /\ UNCHANGED cache

\* A call without an earlier read that matters.
Direct(a, public) == call[a] = Idle /\ Committed(a, public)

\* The call is refused, or its process dies, before its transaction.
GiveUp(a) ==
    /\ call[a].op \notin {"idle", "revalidate"}
    /\ call' = [call EXCEPT ![a] = Idle]
    /\ UNCHANGED <<tree, cache>>

\* One request to the site with a three-second limit: it arrives or is lost.
Revalidate(a) ==
    /\ call[a].op = "revalidate"
    /\ call' = [call EXCEPT ![a] = Idle]
    /\ \/ page' = NoPage /\ lost' = FALSE /\ late' = {}
       \/ lost' = (page # NoPage) /\ UNCHANGED <<page, late>>
    /\ UNCHANGED tree

\* A visitor's request fills the cache.
Fill ==
    /\ page = NoPage
    /\ page' = [categories |-> PublicCategories, courses |-> PublicCourses]
    /\ lost' = FALSE /\ late' = {}
    /\ UNCHANGED <<tree, call>>

\* The five-minute lifetime of a cached page ends.
Expire ==
    /\ page # NoPage
    /\ page' = NoPage /\ lost' = FALSE /\ late' = {}
    /\ UNCHANGED <<tree, call>>

-----------------------------------------------------------------------------
(* Learning services.                                                        *)

CreateService(a, s, p) ==
    /\ service[s] = "NONE"
    /\ service' = [service EXCEPT ![s] = "DRAFT"]
    /\ access' = [access EXCEPT ![s] = p]
    /\ Direct(a, FALSE)
    /\ UNCHANGED <<category, slug, course, price, intakes>>

ReadService(a, s, p) ==
    /\ service[s] \notin Absent
    /\ Read(a, "service", s, p, service[s] = "ACTIVE")

\* Mutant: only published categories hold the policy.
PolicyOpenUnpublished(s, p) ==
    \/ p = access[s]
    \/ \A k \in Under(s) : category[k] # "PUBLISHED"

\* Identity and policy are immutable after the first category.
PolicyOpen(s, p) == p = access[s] \/ CategoryCount(s) = 0

UpdateService(a) ==
    LET s == call[a].at
        p == call[a].to
    IN  /\ call[a].op = "service"
        /\ service[s] \notin Absent \cup {"ARCHIVED"}
        /\ PolicyOpen(s, p)
        /\ access' = [access EXCEPT ![s] = p]
        /\ Committed(a, call[a].public)
        /\ UNCHANGED <<service, category, slug, course, price, intakes>>

ServiceMoves == {<<"DRAFT", "ACTIVE">>, <<"DRAFT", "ARCHIVED">>, <<"ACTIVE", "DRAFT">>,
                 <<"ACTIVE", "ARCHIVED">>, <<"ARCHIVED", "DRAFT">>}

\* Mutant: only the public courses are looked at.
ServiceIdlePublic(s) == \A c \in PublicCourses : Above(c) = s => intakes[c] # "ACTIVE"

ServiceIdle(s) == \A c \in Courses : Above(c) = s => intakes[c] # "ACTIVE"

\* The caller names the status it expects; a stale expectation is refused.
TransitionService(a, s, next) ==
    /\ <<service[s], next>> \in ServiceMoves
    /\ next = "ARCHIVED" => ServiceIdle(s)
    /\ service' = [service EXCEPT ![s] = next]
    /\ Direct(a, TRUE)
    /\ UNCHANGED <<access, category, slug, course, price, intakes>>

\* Mutant: archived categories do not count.
ServiceDeletableHidden(s) ==
    service[s] = "ARCHIVED" /\ \A k \in Under(s) : category[k] \in Absent \cup {"ARCHIVED"}

ServiceDeletable(s) == service[s] = "ARCHIVED" /\ CategoryCount(s) = 0

RemoveService(a, s) ==
    /\ ServiceDeletable(s)
    /\ service' = [service EXCEPT ![s] = "GONE"]
    /\ Direct(a, TRUE)
    /\ UNCHANGED <<access, category, slug, course, price, intakes>>

-----------------------------------------------------------------------------
(* Categories.                                                               *)

CreateCategory(a, k, g) ==
    /\ category[k] = "NONE"
    /\ service[ServiceOf[k]] \notin Absent \cup {"ARCHIVED"}
    /\ category' = [category EXCEPT ![k] = "DRAFT"]
    /\ slug' = [slug EXCEPT ![k] = g]
    /\ Direct(a, FALSE)
    /\ UNCHANGED <<service, access, course, price, intakes>>

\* The slug of a published category is refused here, before the transaction.
ReadCategory(a, k, g) ==
    /\ category[k] \in {"DRAFT", "PUBLISHED"}
    /\ category[k] = "PUBLISHED" => g = Same
    /\ Read(a, "category", k, g, category[k] = "PUBLISHED")

UpdateCategory(a) ==
    LET k == call[a].at
        g == call[a].to
    IN  /\ call[a].op = "category"
        /\ category[k] \in {"DRAFT", "PUBLISHED"}
        /\ slug' = IF g = Same THEN slug ELSE [slug EXCEPT ![k] = g]
        /\ Committed(a, call[a].public)
        /\ UNCHANGED <<service, access, category, course, price, intakes>>

\* Mutant: only a publication reaches the public site.
SetPublicationQuietly(a, k, publish) ==
    /\ category[k] \in {"DRAFT", "PUBLISHED"}
    /\ publish => service[ServiceOf[k]] = "ACTIVE"
    /\ category' = [category EXCEPT ![k] = IF publish THEN "PUBLISHED" ELSE "DRAFT"]
    /\ Direct(a, publish)
    /\ UNCHANGED <<service, access, slug, course, price, intakes>>

SetPublication(a, k, publish) ==
    /\ category[k] \in {"DRAFT", "PUBLISHED"}
    /\ publish => service[ServiceOf[k]] = "ACTIVE"
    /\ category' = [category EXCEPT ![k] = IF publish THEN "PUBLISHED" ELSE "DRAFT"]
    /\ Direct(a, TRUE)
    /\ UNCHANGED <<service, access, slug, course, price, intakes>>

\* An archived category is answered at once, without a transaction.
ReadToArchive(a, k) ==
    /\ category[k] \in {"DRAFT", "PUBLISHED"}
    /\ Read(a, "archive", k, Same, category[k] = "PUBLISHED")

\* Mutant: the courses keep their own flag.
CoursesAfterNone(k) == course

CoursesAfter(k) ==
    [c \in Courses |-> IF c \in In(k) /\ course[c] = "LIVE" THEN "ARCHIVED" ELSE course[c]]

\* The category was not published when the call read it, and is shown now.
HidesUnread(a) == page # NoPage /\ ~call[a].public /\ call[a].at \in PublicCategories

ArchiveCategory(a) ==
    LET k == call[a].at
    IN  /\ call[a].op = "archive"
        /\ category[k] \notin Absent
        /\ \A c \in In(k) : intakes[c] # "ACTIVE"
        /\ course' = CoursesAfter(k)
        /\ category' = [category EXCEPT ![k] = "ARCHIVED"]
        /\ Told(a, call[a].public)
        /\ late' = IF HidesUnread(a) THEN late \cup {k} ELSE late
        /\ UNCHANGED <<page, lost, service, access, slug, price, intakes>>

RestoreCategory(a, k) ==
    /\ category[k] = "ARCHIVED"
    /\ service[ServiceOf[k]] # "ARCHIVED"
    /\ category' = [category EXCEPT ![k] = "DRAFT"]
    /\ Direct(a, FALSE)
    /\ UNCHANGED <<service, access, slug, course, price, intakes>>

CategoryDeletable(k) ==
    category[k] = "ARCHIVED" /\ \A c \in In(k) : intakes[c] \in {"NONE", "UNUSED"}

RemoveCategory(a, k) ==
    /\ CategoryDeletable(k)
    /\ intakes' = [c \in Courses |-> IF c \in In(k) THEN "NONE" ELSE intakes[c]]
    /\ course' = [c \in Courses |-> IF c \in In(k) THEN "GONE" ELSE course[c]]
    /\ category' = [category EXCEPT ![k] = "GONE"]
    /\ Direct(a, TRUE)
    /\ UNCHANGED <<service, access, slug, price>>

-----------------------------------------------------------------------------
(* Courses.                                                                  *)

\* validatePricingPolicy, on the category as it was read before the transaction.
Fits(p, policy) == (policy = "FREE") = (p = "ZERO")

ReadToCreate(a, c, p) ==
    /\ course[c] = "NONE"
    /\ category[CategoryOf[c]] \in {"DRAFT", "PUBLISHED"}
    /\ Fits(p, access[Above(c)])
    /\ Read(a, "create", c, p, TRUE)

CreateCourse(a) ==
    LET c == call[a].at
    IN  /\ call[a].op = "create"
        /\ course[c] = "NONE"
        /\ category[CategoryOf[c]] \in {"DRAFT", "PUBLISHED"}
        /\ service[Above(c)] # "ARCHIVED"
        /\ course' = [course EXCEPT ![c] = "LIVE"]
        /\ price' = [price EXCEPT ![c] = call[a].to]
        /\ Committed(a, TRUE)
        /\ UNCHANGED <<service, access, category, slug, intakes>>

ReadCourse(a, c, p) ==
    /\ course[c] \notin Absent
    /\ Fits(p, access[Above(c)])
    /\ Read(a, "course", c, p, TRUE)

UpdateCourse(a) ==
    LET c == call[a].at
    IN  /\ call[a].op = "course"
        /\ course[c] = "LIVE"
        /\ price' = [price EXCEPT ![c] = call[a].to]
        /\ Committed(a, TRUE)
        /\ UNCHANGED <<service, access, category, slug, course, intakes>>

ArchiveCourse(a, c) ==
    /\ course[c] \notin Absent
    /\ intakes[c] # "ACTIVE"
    /\ course' = [course EXCEPT ![c] = "ARCHIVED"]
    /\ Direct(a, TRUE)
    /\ UNCHANGED <<service, access, category, slug, price, intakes>>

RestoreCourse(a, c) ==
    /\ course[c] \notin Absent
    /\ category[CategoryOf[c]] # "ARCHIVED"
    /\ service[Above(c)] # "ARCHIVED"
    /\ course' = [course EXCEPT ![c] = "LIVE"]
    /\ Direct(a, TRUE)
    /\ UNCHANGED <<service, access, category, slug, price, intakes>>

CourseDeletable(c) == course[c] = "ARCHIVED" /\ intakes[c] = "NONE"

RemoveCourse(a, c) ==
    /\ CourseDeletable(c)
    /\ course' = [course EXCEPT ![c] = "GONE"]
    /\ Direct(a, FALSE)
    /\ UNCHANGED <<service, access, category, slug, price, intakes>>

-----------------------------------------------------------------------------
(* The intakes of a course, as far as the catalog looks at them; their own   *)
(* module is IntakeEnrollment.                                               *)

IntakeCreated(c, next) ==
    /\ intakes[c] = "NONE" /\ next = "UNUSED"
    /\ course[c] = "LIVE" /\ Look(c) # "ARCHIVED"

IntakeOpened(c, next) ==
    /\ intakes[c] \in {"UNUSED", "HISTORY"} /\ next = "ACTIVE"
    /\ Look(c) = "PUBLIC"

\* The last of its intakes is removed, without lessons or learners.
IntakeRemoved(c, next) == intakes[c] = "UNUSED" /\ next = "NONE"

MayMoveIntakes(c, next) ==
    \/ IntakeCreated(c, next)
    \/ IntakeOpened(c, next)
    \/ IntakeRemoved(c, next)
    \/ intakes[c] = "UNUSED" /\ next = "HISTORY"                 \* a lesson or a learner
    \/ intakes[c] = "ACTIVE" /\ next \in {"UNUSED", "HISTORY"}  \* completed or cancelled

MoveIntakes(c, next) ==
    /\ MayMoveIntakes(c, next)
    /\ intakes' = [intakes EXCEPT ![c] = next]
    /\ UNCHANGED <<service, access, category, slug, course, price, call, cache>>

-----------------------------------------------------------------------------
ServiceCall(a, s) ==
    \/ \E p \in Policies : CreateService(a, s, p) \/ ReadService(a, s, p)
    \/ \E next \in ServiceStates : TransitionService(a, s, next)
    \/ RemoveService(a, s)

CategoryCall(a, k) ==
    \/ \E g \in Slugs : CreateCategory(a, k, g)
    \/ \E g \in Slugs \cup {Same} : ReadCategory(a, k, g)
    \/ \E publish \in BOOLEAN : SetPublication(a, k, publish)
    \/ ReadToArchive(a, k)
    \/ RestoreCategory(a, k)
    \/ RemoveCategory(a, k)

CourseCall(a, c) ==
    \/ \E p \in Prices : ReadToCreate(a, c, p) \/ ReadCourse(a, c, p)
    \/ ArchiveCourse(a, c)
    \/ RestoreCourse(a, c)
    \/ RemoveCourse(a, c)

Continue(a) ==
    \/ UpdateService(a)
    \/ UpdateCategory(a)
    \/ ArchiveCategory(a)
    \/ CreateCourse(a)
    \/ UpdateCourse(a)
    \/ GiveUp(a)
    \/ Revalidate(a)

Next ==
    \/ \E a \in Admins, s \in Services : ServiceCall(a, s)
    \/ \E a \in Admins, k \in Categories : CategoryCall(a, k)
    \/ \E a \in Admins, c \in Courses : CourseCall(a, c)
    \/ \E a \in Admins : Continue(a)
    \/ \E c \in Courses, next \in IntakeSets : MoveIntakes(c, next)
    \/ Fill
    \/ Expire

Spec == Init /\ [][Next]_vars

-----------------------------------------------------------------------------
(* Properties.                                                               *)

\* The price of a course fits its service: zero if and only if the service is
\* free.  It is checked on a category read before the transaction
\* (course.service.js:98, 118), against an update of the service's policy that
\* may be committed in between.
PriceMatchesPolicy ==
    \A c \in Courses : course[c] \notin Absent => Fits(price[c], access[Above(c)])

\* An archived category has no live course, through archiving, restoring and
\* creating courses at any time.
ArchivedCategoryIsEmpty ==
    \A c \in Courses : category[CategoryOf[c]] = "ARCHIVED" => course[c] # "LIVE"

\* The rows implement the view that the intakes rely on.
View == INSTANCE CatalogView WITH
    catalog <- [c \in Courses |-> Look(c)],
    busy <- Busy
ImplementsCatalogView == View!Spec

\* What the cached pages show although it is hidden by now, when no revalidation
\* has been lost since they were filled and none is on its way.
Unexplained ==
    IF page = NoPage \/ lost \/ (\E a \in Admins : call[a].op = "revalidate") THEN {}
    ELSE (page.categories \ PublicCategories) \cup {CategoryOf[c] : c \in page.courses \ PublicCourses}

\* As long as the site is reached, every operation that hides something renews
\* the cached pages, except one: archiving a category that was published after
\* the call had read it (category.service.js:136).  What stays on the pages
\* belongs to a category that such a call has archived since they were filled.
StaleOnlyByLateArchive == Unexplained \subseteq late

\* publicCatalogCache.service.js:6: the cache is expired "after a database write
\* that changes published catalog output".
WritesRenewThePages == Unexplained = {}

\* category.service.js:83: "Published category slugs and services are immutable.
\* Unpublish it first."
PublishedSlugStays ==
    [][\A k \in Categories :
        category[k] = "PUBLISHED" /\ category'[k] = "PUBLISHED" => slug'[k] = slug[k]]_vars
=============================================================================
