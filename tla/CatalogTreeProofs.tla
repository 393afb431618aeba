-------------------------- MODULE CatalogTreeProofs --------------------------
(***************************************************************************)
(* Proofs that the catalog keeps its rows, prices and public pages in      *)
(* order for every set of services, categories, courses and administrators *)
(* and that it implements CatalogView.                                     *)
(***************************************************************************)
EXTENDS CatalogTree, FiniteSetTheorems, TLAPS

-----------------------------------------------------------------------------
(* The inductive invariant.  What a call has read is still good when it is   *)
(* written: a price that fitted its service fits it for as long as the       *)
(* category exists, because a service with a category keeps its policy.      *)

CallsFit ==
    \A a \in Admins :
        /\ call[a].op = "service" => call[a].at \in Services /\ call[a].to \in Policies
        /\ call[a].op = "category" => call[a].at \in Categories /\ call[a].to \in Slugs \cup {Same}
        /\ call[a].op = "archive" => call[a].at \in Categories
        /\ call[a].op \in {"create", "course"} =>
              LET c == call[a].at
              IN  /\ c \in Courses /\ call[a].to \in Prices
                  /\ category[CategoryOf[c]] # "NONE"
                  /\ category[CategoryOf[c]] = "GONE" \/ Fits(call[a].to, access[Above(c)])

\* What the cached pages show is still public, or hidden by a late archive.
PagesExplained ==
    page # NoPage /\ ~lost /\ (\A a \in Admins : call[a].op # "revalidate") =>
        /\ \A k \in page.categories : k \in PublicCategories \cup late
        /\ \A c \in page.courses : c \in PublicCourses \/ CategoryOf[c] \in late

\* TypeOK alone is not inductive with the prices: a call writes what it read.
IInv ==
    /\ TypeOK
    /\ CallsFit
    /\ PriceMatchesPolicy
    /\ ArchivedCategoryIsEmpty
    /\ PagesExplained

\* A service without categories has none, and the converse.
LEMMA NoCategories ==
    ASSUME NEW s \in Services, CategoryCount(s) = 0
    PROVE  \A k \in Categories : ServiceOf[k] = s => category[k] \in Absent
<1> DEFINE S == {k \in Under(s) : category[k] \notin Absent}
<1>1. IsFiniteSet(S)
  BY TreeAssumption, FS_Subset DEF Under
<1>2. S = {}
  BY <1>1, FS_EmptySet DEF CategoryCount
<1> QED
  BY <1>2 DEF Under

LEMMA StaleMeans == PagesExplained => StaleOnlyByLateArchive
BY DEF PagesExplained, StaleOnlyByLateArchive, Unexplained

\* The finite sets of values, from here on.
USE TreeAssumption, ValueAssumption
    DEF ServiceStates, CategoryStates, CourseStates, IntakeSets, Policies, Prices, Absent,
        Ops, Calls, Idle, Owes

-----------------------------------------------------------------------------
(* Every operation preserves the invariant; one lemma per action.            *)

LEMMA InvInit == Init => IInv
<1> SUFFICES ASSUME Init PROVE IInv
  OBVIOUS
<1> USE DEF Init
<1>1. TypeOK
  BY DEF TypeOK, CallsFit
<1>2. CallsFit
  BY DEF CallsFit
<1>3. PriceMatchesPolicy /\ ArchivedCategoryIsEmpty
  BY DEF PriceMatchesPolicy, ArchivedCategoryIsEmpty
<1>4. PagesExplained
  BY DEF PagesExplained
<1> QED
  BY <1>1, <1>2, <1>3, <1>4 DEF IInv

LEMMA InvReadService ==
    ASSUME IInv, NEW a \in Admins, NEW s \in Services, NEW p \in Policies, ReadService(a, s, p) PROVE IInv'
<1> USE DEF ReadService, Read, tree, cache, IInv
<1>1. TypeOK'
  BY DEF TypeOK, CallsFit, In, PublicCategories, PublicCourses
<1>2. CallsFit'
  BY DEF CallsFit, TypeOK, Above
<1>3. PriceMatchesPolicy'
  BY DEF PriceMatchesPolicy, TypeOK, CallsFit, Above, In
<1>4. ArchivedCategoryIsEmpty'
  BY DEF ArchivedCategoryIsEmpty, TypeOK, CallsFit, In
<1>5. PagesExplained'
  BY DEF PagesExplained, TypeOK, CallsFit, PublicCategories, PublicCourses, In
<1> QED
  BY <1>1, <1>2, <1>3, <1>4, <1>5

LEMMA InvUpdateService ==
    ASSUME IInv, NEW a \in Admins, UpdateService(a) PROVE IInv'
<1> USE DEF UpdateService, PolicyOpen, Committed, Told, tree, cache, IInv
<1> DEFINE s == call[a].at
           p == call[a].to
<1>a. \A k \in Categories : category[k] \in Absent \/ access'[ServiceOf[k]] = access[ServiceOf[k]]
  <2>1. s \in Services /\ p \in Policies
    BY DEF CallsFit
  <2>2. CASE p = access[s]
    BY <2>1, <2>2 DEF TypeOK
  <2>3. CASE CategoryCount(s) = 0
    <3>1. \A k \in Categories : ServiceOf[k] = s => category[k] \in Absent
      BY <2>1, <2>3, NoCategories
    <3> QED
      BY <2>1, <3>1 DEF TypeOK
  <2> QED
    BY <2>2, <2>3
<1>1. TypeOK'
  BY DEF TypeOK, CallsFit, In, PublicCategories, PublicCourses
<1>2. CallsFit'
  <2>1. \A b \in Admins : call'[b] = call[b] \/ call'[b].op \in {"idle", "revalidate"}
    BY DEF TypeOK
  <2>2. category' = category
    OBVIOUS
  <2> HIDE DEF UpdateService
  <2> QED
    BY <1>a, <2>1, <2>2 DEF CallsFit, Above, Fits
<1>3. PriceMatchesPolicy'
  <2>1. course' = course /\ category' = category /\ price' = price
    OBVIOUS
  <2> HIDE DEF UpdateService
  <2> QED
    BY <1>a, <2>1 DEF PriceMatchesPolicy, Fits, Above, TypeOK
<1>4. ArchivedCategoryIsEmpty'
  BY DEF ArchivedCategoryIsEmpty, TypeOK, CallsFit, In
<1>5. PagesExplained'
  BY DEF PagesExplained, TypeOK, CallsFit, PublicCategories, PublicCourses, In
<1> QED
  BY <1>1, <1>2, <1>3, <1>4, <1>5

LEMMA InvCreateService ==
    ASSUME IInv, NEW a \in Admins, NEW s \in Services, NEW p \in Policies, CreateService(a, s, p) PROVE IInv'
<1> USE DEF CreateService, Direct, Committed, Told, tree, cache, IInv
<1>1. TypeOK'
  BY DEF TypeOK, CallsFit, In, PublicCategories, PublicCourses
<1>2. CallsFit'
  <2>1. \A b \in Admins : call'[b] = call[b] \/ call'[b].op \in {"idle", "revalidate"}
    BY DEF TypeOK
  <2>2. \A k \in Categories : category[k] \in Absent \/ access'[ServiceOf[k]] = access[ServiceOf[k]]
    BY DEF TypeOK
  <2>3. category' = category
    OBVIOUS
  <2> HIDE DEF CreateService
  <2> QED
    BY <2>1, <2>2, <2>3 DEF CallsFit, Above, Fits
<1>3. PriceMatchesPolicy'
  BY DEF PriceMatchesPolicy, TypeOK, CallsFit, Above, In
<1>4. ArchivedCategoryIsEmpty'
  BY DEF ArchivedCategoryIsEmpty, TypeOK, CallsFit, In
<1>5. PagesExplained'
  BY DEF PagesExplained, TypeOK, CallsFit, PublicCategories, PublicCourses, In
<1> QED
  BY <1>1, <1>2, <1>3, <1>4, <1>5

LEMMA InvTransitionService ==
    ASSUME IInv, NEW a \in Admins, NEW s \in Services, NEW next \in ServiceStates, TransitionService(a, s, next) PROVE IInv'
<1> USE DEF TransitionService, ServiceMoves, Direct, Committed, Told, tree, cache, IInv
<1>1. TypeOK'
  BY DEF TypeOK, CallsFit, In, PublicCategories, PublicCourses
<1>2. CallsFit'
  BY DEF CallsFit, TypeOK, Above
<1>3. PriceMatchesPolicy'
  BY DEF PriceMatchesPolicy, TypeOK, CallsFit, Above, In
<1>4. ArchivedCategoryIsEmpty'
  BY DEF ArchivedCategoryIsEmpty, TypeOK, CallsFit, In
<1>5. PagesExplained'
  BY DEF PagesExplained, TypeOK, CallsFit, PublicCategories, PublicCourses, In
<1> QED
  BY <1>1, <1>2, <1>3, <1>4, <1>5

LEMMA InvRemoveService ==
    ASSUME IInv, NEW a \in Admins, NEW s \in Services, RemoveService(a, s) PROVE IInv'
<1> USE DEF RemoveService, ServiceDeletable, Direct, Committed, Told, tree, cache, IInv
<1>1. TypeOK'
  <2>1. \A k \in Categories : ServiceOf[k] = s => category[k] \in Absent
    BY NoCategories
  <2>2. service' \in [Services -> ServiceStates] /\ call' \in [Admins -> Calls]
    BY DEF TypeOK
  <2>3. \A k \in Categories : category[k] \notin Absent => service'[ServiceOf[k]] \notin Absent
    BY <2>1 DEF TypeOK
  <2> QED
    BY <2>2, <2>3 DEF TypeOK
<1>2. CallsFit'
  <2>1. \A b \in Admins : call'[b] = call[b] \/ call'[b].op \in {"idle", "revalidate"}
    BY DEF TypeOK
  <2>2. category' = category /\ access' = access
    OBVIOUS
  <2> HIDE DEF RemoveService
  <2> QED
    BY <2>1, <2>2 DEF CallsFit, Above, Fits
<1>3. PriceMatchesPolicy'
  BY DEF PriceMatchesPolicy, TypeOK, CallsFit, Above, In
<1>4. ArchivedCategoryIsEmpty'
  BY DEF ArchivedCategoryIsEmpty, TypeOK, CallsFit, In
<1>5. PagesExplained'
  BY DEF PagesExplained, TypeOK, CallsFit, PublicCategories, PublicCourses, In
<1> QED
  BY <1>1, <1>2, <1>3, <1>4, <1>5

LEMMA InvCreateCategory ==
    ASSUME IInv, NEW a \in Admins, NEW k \in Categories, NEW g \in Slugs, CreateCategory(a, k, g) PROVE IInv'
<1> USE DEF CreateCategory, Direct, Committed, Told, tree, cache, IInv
<1>1. TypeOK'
  BY DEF TypeOK, CallsFit, In, PublicCategories, PublicCourses
<1>2. CallsFit'
  BY DEF CallsFit, TypeOK, Above
<1>3. PriceMatchesPolicy'
  BY DEF PriceMatchesPolicy, TypeOK, CallsFit, Above, In
<1>4. ArchivedCategoryIsEmpty'
  BY DEF ArchivedCategoryIsEmpty, TypeOK, CallsFit, In
<1>5. PagesExplained'
  BY DEF PagesExplained, TypeOK, CallsFit, PublicCategories, PublicCourses, In
<1> QED
  BY <1>1, <1>2, <1>3, <1>4, <1>5

LEMMA InvReadCategory ==
    ASSUME IInv, NEW a \in Admins, NEW k \in Categories, NEW g \in Slugs \cup {Same}, ReadCategory(a, k, g) PROVE IInv'
<1> USE DEF ReadCategory, Read, tree, cache, IInv
<1>1. TypeOK'
  BY DEF TypeOK, CallsFit, In, PublicCategories, PublicCourses
<1>2. CallsFit'
  BY DEF CallsFit, TypeOK, Above
<1>3. PriceMatchesPolicy'
  BY DEF PriceMatchesPolicy, TypeOK, CallsFit, Above, In
<1>4. ArchivedCategoryIsEmpty'
  BY DEF ArchivedCategoryIsEmpty, TypeOK, CallsFit, In
<1>5. PagesExplained'
  BY DEF PagesExplained, TypeOK, CallsFit, PublicCategories, PublicCourses, In
<1> QED
  BY <1>1, <1>2, <1>3, <1>4, <1>5

LEMMA InvUpdateCategory ==
    ASSUME IInv, NEW a \in Admins, UpdateCategory(a) PROVE IInv'
<1> USE DEF UpdateCategory, Committed, Told, tree, cache, IInv
<1>1. TypeOK'
  BY DEF TypeOK, CallsFit, In, PublicCategories, PublicCourses
<1>2. CallsFit'
  BY DEF CallsFit, TypeOK, Above
<1>3. PriceMatchesPolicy'
  BY DEF PriceMatchesPolicy, TypeOK, CallsFit, Above, In
<1>4. ArchivedCategoryIsEmpty'
  BY DEF ArchivedCategoryIsEmpty, TypeOK, CallsFit, In
<1>5. PagesExplained'
  BY DEF PagesExplained, TypeOK, CallsFit, PublicCategories, PublicCourses, In
<1> QED
  BY <1>1, <1>2, <1>3, <1>4, <1>5

LEMMA InvSetPublication ==
    ASSUME IInv, NEW a \in Admins, NEW k \in Categories, NEW publish \in BOOLEAN, SetPublication(a, k, publish) PROVE IInv'
<1> USE DEF SetPublication, Direct, Committed, Told, tree, cache, IInv
<1>1. TypeOK'
  BY DEF TypeOK, CallsFit, In, PublicCategories, PublicCourses
<1>2. CallsFit'
  BY DEF CallsFit, TypeOK, Above
<1>3. PriceMatchesPolicy'
  BY DEF PriceMatchesPolicy, TypeOK, CallsFit, Above, In
<1>4. ArchivedCategoryIsEmpty'
  BY DEF ArchivedCategoryIsEmpty, TypeOK, CallsFit, In
<1>5. PagesExplained'
  BY DEF PagesExplained, TypeOK, CallsFit, PublicCategories, PublicCourses, In
<1> QED
  BY <1>1, <1>2, <1>3, <1>4, <1>5

LEMMA InvReadToArchive ==
    ASSUME IInv, NEW a \in Admins, NEW k \in Categories, ReadToArchive(a, k) PROVE IInv'
<1> USE DEF ReadToArchive, Read, tree, cache, IInv
<1>1. TypeOK'
  BY DEF TypeOK, CallsFit, In, PublicCategories, PublicCourses
<1>2. CallsFit'
  BY DEF CallsFit, TypeOK, Above
<1>3. PriceMatchesPolicy'
  BY DEF PriceMatchesPolicy, TypeOK, CallsFit, Above, In
<1>4. ArchivedCategoryIsEmpty'
  BY DEF ArchivedCategoryIsEmpty, TypeOK, CallsFit, In
<1>5. PagesExplained'
  BY DEF PagesExplained, TypeOK, CallsFit, PublicCategories, PublicCourses, In
<1> QED
  BY <1>1, <1>2, <1>3, <1>4, <1>5

LEMMA InvArchiveCategory ==
    ASSUME IInv, NEW a \in Admins, ArchiveCategory(a) PROVE IInv'
<1> USE DEF ArchiveCategory, CoursesAfter, HidesUnread, Told, tree, cache, IInv
<1>1. TypeOK'
  BY DEF TypeOK, CallsFit, In, PublicCategories, PublicCourses
<1>2. CallsFit'
  <2>1. \A b \in Admins : call'[b] = call[b] \/ call'[b].op \in {"idle", "revalidate"}
    BY DEF TypeOK
  <2>2. \A k \in Categories : category'[k] \in {category[k], "ARCHIVED"}
    BY DEF TypeOK
  <2>3. access' = access /\ category[call[a].at] \notin Absent
    OBVIOUS
  <2>4. \A k \in Categories : category[k] = "GONE" => category'[k] = "GONE"
    BY DEF TypeOK
  <2>5. \A k \in Categories : category[k] # "NONE" => category'[k] # "NONE"
    BY <2>2
  <2> HIDE DEF ArchiveCategory
  <2> QED
    BY <2>1, <2>3, <2>4, <2>5 DEF CallsFit, Above, Fits
<1>3. PriceMatchesPolicy'
  BY DEF PriceMatchesPolicy, TypeOK, CallsFit, Above, In
<1>4. ArchivedCategoryIsEmpty'
  BY DEF ArchivedCategoryIsEmpty, TypeOK, CallsFit, In
<1>5. PagesExplained'
  BY DEF PagesExplained, TypeOK, CallsFit, PublicCategories, PublicCourses, In
<1> QED
  BY <1>1, <1>2, <1>3, <1>4, <1>5

LEMMA InvRestoreCategory ==
    ASSUME IInv, NEW a \in Admins, NEW k \in Categories, RestoreCategory(a, k) PROVE IInv'
<1> USE DEF RestoreCategory, Direct, Committed, Told, tree, cache, IInv
<1>1. TypeOK'
  BY DEF TypeOK, CallsFit, In, PublicCategories, PublicCourses
<1>2. CallsFit'
  BY DEF CallsFit, TypeOK, Above
<1>3. PriceMatchesPolicy'
  BY DEF PriceMatchesPolicy, TypeOK, CallsFit, Above, In
<1>4. ArchivedCategoryIsEmpty'
  BY DEF ArchivedCategoryIsEmpty, TypeOK, CallsFit, In
<1>5. PagesExplained'
  BY DEF PagesExplained, TypeOK, CallsFit, PublicCategories, PublicCourses, In
<1> QED
  BY <1>1, <1>2, <1>3, <1>4, <1>5

LEMMA InvRemoveCategory ==
    ASSUME IInv, NEW a \in Admins, NEW k \in Categories, RemoveCategory(a, k) PROVE IInv'
<1> USE DEF RemoveCategory, CategoryDeletable, Direct, Committed, Told, tree, cache, IInv
<1>1. TypeOK'
  BY DEF TypeOK, CallsFit, In, PublicCategories, PublicCourses
<1>2. CallsFit'
  BY DEF CallsFit, TypeOK, Above
<1>3. PriceMatchesPolicy'
  BY DEF PriceMatchesPolicy, TypeOK, CallsFit, Above, In
<1>4. ArchivedCategoryIsEmpty'
  BY DEF ArchivedCategoryIsEmpty, TypeOK, CallsFit, In
<1>5. PagesExplained'
  BY DEF PagesExplained, TypeOK, CallsFit, PublicCategories, PublicCourses, In
<1> QED
  BY <1>1, <1>2, <1>3, <1>4, <1>5

LEMMA InvReadToCreate ==
    ASSUME IInv, NEW a \in Admins, NEW c \in Courses, NEW p \in Prices, ReadToCreate(a, c, p) PROVE IInv'
<1> USE DEF ReadToCreate, Read, tree, cache, IInv
<1>1. TypeOK'
  BY DEF TypeOK, CallsFit, In, PublicCategories, PublicCourses
<1>2. CallsFit'
  BY DEF CallsFit, TypeOK, Above
<1>3. PriceMatchesPolicy'
  BY DEF PriceMatchesPolicy, TypeOK, CallsFit, Above, In
<1>4. ArchivedCategoryIsEmpty'
  BY DEF ArchivedCategoryIsEmpty, TypeOK, CallsFit, In
<1>5. PagesExplained'
  BY DEF PagesExplained, TypeOK, CallsFit, PublicCategories, PublicCourses, In
<1> QED
  BY <1>1, <1>2, <1>3, <1>4, <1>5

LEMMA InvCreateCourse ==
    ASSUME IInv, NEW a \in Admins, CreateCourse(a) PROVE IInv'
<1> USE DEF CreateCourse, Committed, Told, tree, cache, IInv
<1>1. TypeOK'
  BY DEF TypeOK, CallsFit, In, PublicCategories, PublicCourses
<1>2. CallsFit'
  BY DEF CallsFit, TypeOK, Above
<1>3. PriceMatchesPolicy'
  BY DEF PriceMatchesPolicy, TypeOK, CallsFit, Above, In
<1>4. ArchivedCategoryIsEmpty'
  BY DEF ArchivedCategoryIsEmpty, TypeOK, CallsFit, In
<1>5. PagesExplained'
  BY DEF PagesExplained, TypeOK, CallsFit, PublicCategories, PublicCourses, In
<1> QED
  BY <1>1, <1>2, <1>3, <1>4, <1>5

LEMMA InvReadCourse ==
    ASSUME IInv, NEW a \in Admins, NEW c \in Courses, NEW p \in Prices, ReadCourse(a, c, p) PROVE IInv'
<1> USE DEF ReadCourse, Read, tree, cache, IInv
<1>1. TypeOK'
  BY DEF TypeOK, CallsFit, In, PublicCategories, PublicCourses
<1>2. CallsFit'
  BY DEF CallsFit, TypeOK, Above
<1>3. PriceMatchesPolicy'
  BY DEF PriceMatchesPolicy, TypeOK, CallsFit, Above, In
<1>4. ArchivedCategoryIsEmpty'
  BY DEF ArchivedCategoryIsEmpty, TypeOK, CallsFit, In
<1>5. PagesExplained'
  BY DEF PagesExplained, TypeOK, CallsFit, PublicCategories, PublicCourses, In
<1> QED
  BY <1>1, <1>2, <1>3, <1>4, <1>5

LEMMA InvUpdateCourse ==
    ASSUME IInv, NEW a \in Admins, UpdateCourse(a) PROVE IInv'
<1> USE DEF UpdateCourse, Committed, Told, tree, cache, IInv
<1>1. TypeOK'
  BY DEF TypeOK, CallsFit, In, PublicCategories, PublicCourses
<1>2. CallsFit'
  BY DEF CallsFit, TypeOK, Above
<1>3. PriceMatchesPolicy'
  BY DEF PriceMatchesPolicy, TypeOK, CallsFit, Above, In
<1>4. ArchivedCategoryIsEmpty'
  BY DEF ArchivedCategoryIsEmpty, TypeOK, CallsFit, In
<1>5. PagesExplained'
  BY DEF PagesExplained, TypeOK, CallsFit, PublicCategories, PublicCourses, In
<1> QED
  BY <1>1, <1>2, <1>3, <1>4, <1>5

LEMMA InvArchiveCourse ==
    ASSUME IInv, NEW a \in Admins, NEW c \in Courses, ArchiveCourse(a, c) PROVE IInv'
<1> USE DEF ArchiveCourse, Direct, Committed, Told, tree, cache, IInv
<1>1. TypeOK'
  BY DEF TypeOK, CallsFit, In, PublicCategories, PublicCourses
<1>2. CallsFit'
  BY DEF CallsFit, TypeOK, Above
<1>3. PriceMatchesPolicy'
  BY DEF PriceMatchesPolicy, TypeOK, CallsFit, Above, In
<1>4. ArchivedCategoryIsEmpty'
  BY DEF ArchivedCategoryIsEmpty, TypeOK, CallsFit, In
<1>5. PagesExplained'
  BY DEF PagesExplained, TypeOK, CallsFit, PublicCategories, PublicCourses, In
<1> QED
  BY <1>1, <1>2, <1>3, <1>4, <1>5

LEMMA InvRestoreCourse ==
    ASSUME IInv, NEW a \in Admins, NEW c \in Courses, RestoreCourse(a, c) PROVE IInv'
<1> USE DEF RestoreCourse, Direct, Committed, Told, tree, cache, IInv
<1>1. TypeOK'
  BY DEF TypeOK, CallsFit, In, PublicCategories, PublicCourses
<1>2. CallsFit'
  BY DEF CallsFit, TypeOK, Above
<1>3. PriceMatchesPolicy'
  BY DEF PriceMatchesPolicy, TypeOK, CallsFit, Above, In
<1>4. ArchivedCategoryIsEmpty'
  BY DEF ArchivedCategoryIsEmpty, TypeOK, CallsFit, In
<1>5. PagesExplained'
  BY DEF PagesExplained, TypeOK, CallsFit, PublicCategories, PublicCourses, In
<1> QED
  BY <1>1, <1>2, <1>3, <1>4, <1>5

LEMMA InvRemoveCourse ==
    ASSUME IInv, NEW a \in Admins, NEW c \in Courses, RemoveCourse(a, c) PROVE IInv'
<1> USE DEF RemoveCourse, CourseDeletable, Direct, Committed, Told, tree, cache, IInv
<1>1. TypeOK'
  BY DEF TypeOK, CallsFit, In, PublicCategories, PublicCourses
<1>2. CallsFit'
  BY DEF CallsFit, TypeOK, Above
<1>3. PriceMatchesPolicy'
  BY DEF PriceMatchesPolicy, TypeOK, CallsFit, Above, In
<1>4. ArchivedCategoryIsEmpty'
  BY DEF ArchivedCategoryIsEmpty, TypeOK, CallsFit, In
<1>5. PagesExplained'
  BY DEF PagesExplained, TypeOK, CallsFit, PublicCategories, PublicCourses, In
<1> QED
  BY <1>1, <1>2, <1>3, <1>4, <1>5

LEMMA InvMoveIntakes ==
    ASSUME IInv, NEW c \in Courses, NEW next \in IntakeSets, MoveIntakes(c, next) PROVE IInv'
<1> USE DEF MoveIntakes, MayMoveIntakes, IntakeCreated, IntakeOpened, IntakeRemoved, tree, cache, IInv
<1>1. TypeOK'
  BY DEF TypeOK, CallsFit, In, PublicCategories, PublicCourses
<1>2. CallsFit'
  BY DEF CallsFit, TypeOK, Above
<1>3. PriceMatchesPolicy'
  BY DEF PriceMatchesPolicy, TypeOK, CallsFit, Above, In
<1>4. ArchivedCategoryIsEmpty'
  BY DEF ArchivedCategoryIsEmpty, TypeOK, CallsFit, In
<1>5. PagesExplained'
  BY DEF PagesExplained, TypeOK, CallsFit, PublicCategories, PublicCourses, In
<1> QED
  BY <1>1, <1>2, <1>3, <1>4, <1>5

LEMMA InvGiveUp ==
    ASSUME IInv, NEW a \in Admins, GiveUp(a) PROVE IInv'
<1> USE DEF GiveUp, tree, cache, IInv
<1>1. TypeOK'
  BY DEF TypeOK, CallsFit, In, PublicCategories, PublicCourses
<1>2. CallsFit'
  BY DEF CallsFit, TypeOK, Above
<1>3. PriceMatchesPolicy'
  BY DEF PriceMatchesPolicy, TypeOK, CallsFit, Above, In
<1>4. ArchivedCategoryIsEmpty'
  BY DEF ArchivedCategoryIsEmpty, TypeOK, CallsFit, In
<1>5. PagesExplained'
  BY DEF PagesExplained, TypeOK, CallsFit, PublicCategories, PublicCourses, In
<1> QED
  BY <1>1, <1>2, <1>3, <1>4, <1>5

LEMMA InvRevalidate ==
    ASSUME IInv, NEW a \in Admins, Revalidate(a) PROVE IInv'
<1> USE DEF Revalidate, tree, cache, IInv
<1>1. TypeOK'
  BY DEF TypeOK, CallsFit, In, PublicCategories, PublicCourses
<1>2. CallsFit'
  BY DEF CallsFit, TypeOK, Above
<1>3. PriceMatchesPolicy'
  BY DEF PriceMatchesPolicy, TypeOK, CallsFit, Above, In
<1>4. ArchivedCategoryIsEmpty'
  BY DEF ArchivedCategoryIsEmpty, TypeOK, CallsFit, In
<1>5. PagesExplained'
  BY DEF PagesExplained, TypeOK, CallsFit, PublicCategories, PublicCourses, In
<1> QED
  BY <1>1, <1>2, <1>3, <1>4, <1>5

LEMMA InvFill ==
    ASSUME IInv, Fill PROVE IInv'
<1> USE DEF Fill, tree, cache, IInv
<1>1. TypeOK'
  BY DEF TypeOK, CallsFit, In, PublicCategories, PublicCourses
<1>2. CallsFit'
  BY DEF CallsFit, TypeOK, Above
<1>3. PriceMatchesPolicy'
  BY DEF PriceMatchesPolicy, TypeOK, CallsFit, Above, In
<1>4. ArchivedCategoryIsEmpty'
  BY DEF ArchivedCategoryIsEmpty, TypeOK, CallsFit, In
<1>5. PagesExplained'
  BY DEF PagesExplained, TypeOK, CallsFit, PublicCategories, PublicCourses, In
<1> QED
  BY <1>1, <1>2, <1>3, <1>4, <1>5

LEMMA InvExpire ==
    ASSUME IInv, Expire PROVE IInv'
<1> USE DEF Expire, tree, cache, IInv
<1>1. TypeOK'
  BY DEF TypeOK, CallsFit, In, PublicCategories, PublicCourses
<1>2. CallsFit'
  BY DEF CallsFit, TypeOK, Above
<1>3. PriceMatchesPolicy'
  BY DEF PriceMatchesPolicy, TypeOK, CallsFit, Above, In
<1>4. ArchivedCategoryIsEmpty'
  BY DEF ArchivedCategoryIsEmpty, TypeOK, CallsFit, In
<1>5. PagesExplained'
  BY DEF PagesExplained, TypeOK, CallsFit, PublicCategories, PublicCourses, In
<1> QED
  BY <1>1, <1>2, <1>3, <1>4, <1>5

-----------------------------------------------------------------------------
(* The invariant holds for ever.                                             *)

LEMMA InvStep == IInv /\ [Next]_vars => IInv'
<1> SUFFICES ASSUME IInv, [Next]_vars PROVE IInv'
  OBVIOUS
<1>1. ASSUME NEW a \in Admins, NEW s \in Services, ServiceCall(a, s) PROVE IInv'
  BY <1>1, InvCreateService, InvReadService, InvTransitionService, InvRemoveService DEF ServiceCall
<1>2. ASSUME NEW a \in Admins, NEW k \in Categories, CategoryCall(a, k) PROVE IInv'
  BY <1>2, InvCreateCategory, InvReadCategory, InvSetPublication, InvReadToArchive,
     InvRestoreCategory, InvRemoveCategory DEF CategoryCall
<1>3. ASSUME NEW a \in Admins, NEW c \in Courses, CourseCall(a, c) PROVE IInv'
  BY <1>3, InvReadToCreate, InvReadCourse, InvArchiveCourse, InvRestoreCourse, InvRemoveCourse
     DEF CourseCall
<1>4. ASSUME NEW a \in Admins, Continue(a) PROVE IInv'
  BY <1>4, InvUpdateService, InvUpdateCategory, InvArchiveCategory, InvCreateCourse,
     InvUpdateCourse, InvGiveUp, InvRevalidate DEF Continue
<1>5. CASE UNCHANGED vars
  BY <1>5 DEF vars, tree, cache, IInv, TypeOK, CallsFit, PriceMatchesPolicy, ArchivedCategoryIsEmpty,
     PagesExplained, PublicCategories, PublicCourses, Above, Fits
<1> QED
  BY <1>1, <1>2, <1>3, <1>4, <1>5, InvMoveIntakes, InvFill, InvExpire DEF Next

\* The inductive invariant holds in every reachable state.
THEOREM Invariant == Spec => []IInv
<1>1. Init => IInv
  BY InvInit
<1>2. IInv /\ [Next]_vars => IInv'
  BY InvStep
<1> QED
  BY <1>1, <1>2, PTL DEF Spec

\* Every row has its type and exists only below rows that exist
\* (ON DELETE RESTRICT of the schema, and the order in which rows are removed).
THEOREM RowsHangTogether == Spec => []TypeOK
<1>1. IInv => TypeOK
  BY DEF IInv
<1> QED
  BY <1>1, Invariant, PTL

\* A price checked against the policy before the transaction still fits it when
\* it is written (course.service.js:98, 118), for any number of administrators.
THEOREM PricesFit == Spec => []PriceMatchesPolicy
<1>1. IInv => PriceMatchesPolicy
  BY DEF IInv
<1> QED
  BY <1>1, Invariant, PTL

\* Archiving a category leaves no live course in it, and none gets in
\* (category.repository.js:112-131, course.repository.js:98-105, 205-213).
THEOREM ArchivedStaysEmpty == Spec => []ArchivedCategoryIsEmpty
<1>1. IInv => ArchivedCategoryIsEmpty
  BY DEF IInv
<1> QED
  BY <1>1, Invariant, PTL

\* With no revalidation lost or under way, the cached pages show nothing hidden
\* except in a category that was archived, since they were filled, by a call that
\* had read it unpublished (category.service.js:117, 136; course.service.js).
THEOREM PagesFollow == Spec => []StaleOnlyByLateArchive
<1>1. IInv => StaleOnlyByLateArchive
  BY StaleMeans DEF IInv
<1> QED
  BY <1>1, Invariant, PTL

-----------------------------------------------------------------------------
(* The refinement.  An operation of an administrator may move the looks of   *)
(* the courses, but leaves the courses that are being taught where they are. *)

LeavesTaught ==
    /\ Busy' = Busy
    /\ \A c \in Busy : Look(c)' = "ARCHIVED" => Look(c) = "ARCHIVED"

LEMMA Moves == LeavesTaught => View!MoveCatalog
BY DEF LeavesTaught, View!MoveCatalog, View!Looks, Look, Busy

LEMMA ServiceLeaves ==
    ASSUME IInv, NEW a \in Admins, NEW s \in Services, ServiceCall(a, s) PROVE LeavesTaught
<1> USE DEF LeavesTaught, Busy, Look, PublicCourses, PublicCategories, IInv, TypeOK, Above
<1>1. ASSUME NEW p \in Policies, CreateService(a, s, p) PROVE LeavesTaught
  BY <1>1 DEF CreateService
<1>2. ASSUME NEW p \in Policies, ReadService(a, s, p) PROVE LeavesTaught
  BY <1>2 DEF ReadService, Read, tree
<1>3. ASSUME NEW next \in ServiceStates, TransitionService(a, s, next) PROVE LeavesTaught
  BY <1>3 DEF TransitionService, ServiceMoves, ServiceIdle
<1>4. CASE RemoveService(a, s)
  BY <1>4 DEF RemoveService, ServiceDeletable
<1> QED
  BY <1>1, <1>2, <1>3, <1>4 DEF ServiceCall

LEMMA CategoryLeaves ==
    ASSUME IInv, NEW a \in Admins, NEW k \in Categories, CategoryCall(a, k) PROVE LeavesTaught
<1> USE DEF LeavesTaught, Busy, Look, PublicCourses, PublicCategories, IInv, TypeOK, Above
<1>1. ASSUME NEW g \in Slugs, CreateCategory(a, k, g) PROVE LeavesTaught
  BY <1>1 DEF CreateCategory
<1>2. ASSUME NEW g \in Slugs \cup {Same}, ReadCategory(a, k, g) PROVE LeavesTaught
  BY <1>2 DEF ReadCategory, Read, tree
<1>3. ASSUME NEW publish \in BOOLEAN, SetPublication(a, k, publish) PROVE LeavesTaught
  BY <1>3 DEF SetPublication
<1>4. CASE ReadToArchive(a, k)
  BY <1>4 DEF ReadToArchive, Read, tree
<1>5. CASE RestoreCategory(a, k)
  BY <1>5 DEF RestoreCategory
<1>6. CASE RemoveCategory(a, k)
  BY <1>6 DEF RemoveCategory, CategoryDeletable, In
<1> QED
  BY <1>1, <1>2, <1>3, <1>4, <1>5, <1>6 DEF CategoryCall

LEMMA CourseLeaves ==
    ASSUME IInv, NEW a \in Admins, NEW c \in Courses, CourseCall(a, c) PROVE LeavesTaught
<1> USE DEF LeavesTaught, Busy, Look, PublicCourses, PublicCategories, IInv, TypeOK, Above
<1>1. ASSUME NEW p \in Prices, ReadToCreate(a, c, p) \/ ReadCourse(a, c, p) PROVE LeavesTaught
  BY <1>1 DEF ReadToCreate, ReadCourse, Read, tree
<1>2. CASE ArchiveCourse(a, c)
  BY <1>2 DEF ArchiveCourse
<1>3. CASE RestoreCourse(a, c)
  BY <1>3 DEF RestoreCourse
<1>4. CASE RemoveCourse(a, c)
  BY <1>4 DEF RemoveCourse, CourseDeletable
<1> QED
  BY <1>1, <1>2, <1>3, <1>4 DEF CourseCall

LEMMA ContinueLeaves ==
    ASSUME IInv, NEW a \in Admins, Continue(a) PROVE LeavesTaught
<1> USE DEF LeavesTaught, Busy, Look, PublicCourses, PublicCategories, IInv, TypeOK, Above
<1>1. CASE UpdateService(a)
  BY <1>1 DEF UpdateService
<1>2. CASE UpdateCategory(a)
  BY <1>2 DEF UpdateCategory
<1>3. CASE ArchiveCategory(a)
  BY <1>3 DEF ArchiveCategory, CoursesAfter, In, CallsFit
<1>4. CASE CreateCourse(a)
  BY <1>4 DEF CreateCourse, CallsFit
<1>5. CASE UpdateCourse(a)
  BY <1>5 DEF UpdateCourse
<1>6. CASE GiveUp(a) \/ Revalidate(a)
  BY <1>6 DEF GiveUp, Revalidate, tree
<1> QED
  BY <1>1, <1>2, <1>3, <1>4, <1>5, <1>6 DEF Continue

\* An intake opened in public starts the teaching; one that is over ends it.
LEMMA IntakesTeach ==
    ASSUME IInv, NEW c \in Courses, NEW next \in IntakeSets, MoveIntakes(c, next)
    PROVE  View!StartTeaching(c) \/ View!StopTeaching(c) \/ UNCHANGED View!vars
<1> USE DEF MoveIntakes, MayMoveIntakes, IntakeCreated, IntakeOpened, IntakeRemoved, IInv, TypeOK, Busy
<1>1. [x \in Courses |-> Look(x)]' = [x \in Courses |-> Look(x)]
  BY DEF Look, PublicCourses, PublicCategories
<1>2. CASE intakes[c] # "ACTIVE" /\ next = "ACTIVE"
  <2>1. c \notin Busy /\ Look(c) = "PUBLIC" /\ Busy' = Busy \cup {c}
    BY <1>2
  <2> QED
    BY <1>1, <2>1 DEF View!StartTeaching
<1>3. CASE intakes[c] = "ACTIVE" /\ next # "ACTIVE"
  <2>1. c \in Busy /\ Busy' = Busy \ {c}
    BY <1>3
  <2> QED
    BY <1>1, <2>1 DEF View!StopTeaching
<1>4. CASE (intakes[c] = "ACTIVE") = (next = "ACTIVE")
  <2>1. Busy' = Busy
    BY <1>4
  <2> QED
    BY <1>1, <2>1 DEF View!vars
<1> QED
  BY <1>2, <1>3, <1>4

LEMMA ViewInit == Init => View!Init
BY DEF Init, View!Init, View!Looks, Look, Busy, PublicCourses

LEMMA ViewStep == IInv /\ [Next]_vars => [View!Next]_(View!vars)
<1> SUFFICES ASSUME IInv, [Next]_vars PROVE [View!Next]_(View!vars)
  OBVIOUS
<1>1. LeavesTaught => View!Next
  BY Moves DEF View!Next
<1>2. ASSUME NEW c \in Courses, NEW next \in IntakeSets, MoveIntakes(c, next)
      PROVE  [View!Next]_(View!vars)
  BY <1>2, IntakesTeach DEF View!Next
<1>3. CASE Fill \/ Expire \/ UNCHANGED vars
  <2>1. UNCHANGED tree
    BY <1>3 DEF Fill, Expire, vars
  <2> QED
    BY <2>1 DEF tree, View!vars, Look, Busy, PublicCourses, PublicCategories
<1> QED
  BY <1>1, <1>2, <1>3, ServiceLeaves, CategoryLeaves, CourseLeaves, ContinueLeaves DEF Next

\* Whatever administrators do, a course whose intake is being taught is never
\* archived from above it, and teaching starts only in public: the three kinds
\* of rows implement CatalogView (learningService.repository.js:164-167,
\* category.repository.js:112-120, course.repository.js:187-189).
THEOREM TreeImplementsView == Spec => ImplementsCatalogView
<1>1. Init => View!Init
  BY ViewInit
<1>2. IInv /\ [Next]_vars => [View!Next]_(View!vars)
  BY ViewStep
<1> QED
  BY <1>1, <1>2, Invariant, PTL DEF Spec, ImplementsCatalogView, View!Spec

\* The view keeps its own promise.
LEMMA NobodyIsLeft == View!NobodyLeftBehind /\ [View!Next]_(View!vars) => View!NobodyLeftBehind'
<1> SUFFICES ASSUME View!NobodyLeftBehind, [View!Next]_(View!vars) PROVE View!NobodyLeftBehind'
  OBVIOUS
<1> DEFINE before == [c \in Courses |-> Look(c)]
           after == [c \in Courses |-> Look(c)']
           taught == Busy
           taughtAfter == Busy'
<1>1. \A c \in taught : before[c] # "ARCHIVED"
  BY DEF View!NobodyLeftBehind
<1>2. CASE View!MoveCatalog
  <2>1. taughtAfter = taught /\ \A c \in taught : after[c] = "ARCHIVED" => before[c] = "ARCHIVED"
    BY <1>2 DEF View!MoveCatalog
  <2> QED
    BY <1>1, <2>1 DEF View!NobodyLeftBehind
<1>3. ASSUME NEW c \in Courses, View!StartTeaching(c) PROVE View!NobodyLeftBehind'
  <2>1. before[c] = "PUBLIC" /\ taughtAfter = taught \cup {c} /\ after = before
    BY <1>3 DEF View!StartTeaching
  <2> QED
    BY <1>1, <2>1 DEF View!NobodyLeftBehind
<1>4. ASSUME NEW c \in Courses, View!StopTeaching(c) PROVE View!NobodyLeftBehind'
  <2>1. taughtAfter = taught \ {c} /\ after = before
    BY <1>4 DEF View!StopTeaching
  <2> QED
    BY <1>1, <2>1 DEF View!NobodyLeftBehind
<1>5. CASE UNCHANGED View!vars
  <2>1. taughtAfter = taught /\ after = before
    BY <1>5 DEF View!vars
  <2> QED
    BY <1>1, <2>1 DEF View!NobodyLeftBehind
<1> QED
  BY <1>2, <1>3, <1>4, <1>5 DEF View!Next

\* A course with an active intake is never archived, alone or with the service or
\* category above it, whatever the three archive operations had read before
\* (transitionStatus, archiveSafely, setArchived).
THEOREM NobodyIsLeftBehind == Spec => []View!NobodyLeftBehind
<1>1. View!Init => View!NobodyLeftBehind
  BY DEF View!Init, View!NobodyLeftBehind
<1>2. Init => View!Init
  BY ViewInit
<1>3. IInv /\ [Next]_vars => [View!Next]_(View!vars)
  BY ViewStep
<1> QED
  BY <1>1, <1>2, <1>3, NobodyIsLeft, Invariant, PTL DEF Spec
=============================================================================
