------------------------- MODULE MCLockedEnrollment -------------------------
(* Small instances of LockedEnrollment for TLC: one service, one category.   *)
EXTENDS LockedEnrollment, TLC

CONSTANTS paidCourse, freeCourse, i1, s1, s2, w1, w2, service, category

OneService == {service}
OneCategory == {category}
ServiceOfCategory == category :> service
PaidCourses == {paidCourse}
FreeOnly == {freeCourse}
PaidCategoryOf == paidCourse :> category
FreeCategoryOf == freeCourse :> category
PaidIn == category :> <<paidCourse>>
FreeIn == category :> <<freeCourse>>
OnePaidCourseOf == i1 :> paidCourse
OneFreeCourseOf == i1 :> freeCourse

TwoWorkers == {w1, w2}
WorkerSymmetry == Permutations(TwoWorkers)

\* The life of a seat of a certified paid course, from the first lesson to the
\* certificate; another student who wants the last seat; and the catalog above.
PaidCalls ==
    {[op |-> "createIntake", intake |-> i1, seats |-> Unlimited],
     [op |-> "updateSetup", intake |-> i1, seats |-> 1],
     [op |-> "curriculum", intake |-> i1, to |-> "HIDDEN"],
     [op |-> "curriculum", intake |-> i1, to |-> "VISIBLE"],
     [op |-> "transition", intake |-> i1, from |-> "DRAFT", to |-> "OPEN_ACTIVE"],
     [op |-> "transition", intake |-> i1, from |-> "OPEN_ACTIVE", to |-> "CLOSED_ACTIVE"],
     [op |-> "transition", intake |-> i1, from |-> "CLOSED_ACTIVE", to |-> "COMPLETED"],
     [op |-> "transition", intake |-> i1, from |-> "OPEN_ACTIVE", to |-> "CANCELLED"],
     [op |-> "transition", intake |-> i1, from |-> "CANCELLED", to |-> "ARCHIVED"],
     [op |-> "removeIntake", intake |-> i1],
     [op |-> "createPaid", intake |-> i1, student |-> s1, pays |-> "PARTIAL"],
     [op |-> "createPaid", intake |-> i1, student |-> s2, pays |-> "COMPLETED"],
     [op |-> "completePayment", intake |-> i1, student |-> s1],
     [op |-> "update", intake |-> i1, student |-> s1, to |-> "COMPLETED"],
     [op |-> "update", intake |-> i1, student |-> s1, to |-> "CANCELLED"],
     [op |-> "update", intake |-> i1, student |-> s1, to |-> "ACTIVE"],
     [op |-> "issue", intake |-> i1, student |-> s1],
     [op |-> "revoke", intake |-> i1, student |-> s1],
     [op |-> "service", service |-> service, to |-> "ARCHIVED"],
     [op |-> "category", category |-> category, to |-> "HIDDEN"],
     [op |-> "course", course |-> paidCourse, to |-> "ARCHIVED"]}

\* An evergreen intake the seed left open.
EvergreenCalls ==
    {[op |-> "transition", intake |-> i1, from |-> "OPEN_ACTIVE", to |-> "CLOSED_ACTIVE"],
     [op |-> "transition", intake |-> i1, from |-> "CLOSED_ACTIVE", to |-> "COMPLETED"],
     [op |-> "category", category |-> category, to |-> "ARCHIVED"],
     [op |-> "enrollFree", intake |-> i1, student |-> s1],
     [op |-> "update", intake |-> i1, student |-> s1, to |-> "CANCELLED"],
     [op |-> "update", intake |-> i1, student |-> s1, to |-> "COMPLETED"],
     [op |-> "issue", intake |-> i1, student |-> s1]}
    \cup [op : {"curriculum"}, intake : {i1}, to : CurriculumStates]
=============================================================================
