----------------------------- MODULE CatalogView -----------------------------
(***************************************************************************)
(* What the administrators' catalog promises the rest of the LMS: how a    *)
(* course looks through the chain service / category / course above it,    *)
(* and whether one of its intakes is being taught.  A course that is being *)
(* taught is never archived from above, and teaching starts only in        *)
(* public.  CatalogTree (the three kinds of rows and their endpoints) and  *)
(* IntakeEnrollment (the intakes) both implement it.                       *)
(***************************************************************************)
CONSTANT Courses

VARIABLES
    catalog,  \* per course: "PUBLIC", "HIDDEN" or "ARCHIVED"
    busy      \* courses with an OPEN_ACTIVE or CLOSED_ACTIVE intake

vars == <<catalog, busy>>

Looks == {"PUBLIC", "HIDDEN", "ARCHIVED"}

Init ==
    /\ catalog \in [Courses -> Looks]
    /\ busy \in SUBSET {c \in Courses : catalog[c] = "PUBLIC"}

\* Any publishing, hiding, archiving or restoring that leaves nobody behind.
MoveCatalog ==
    /\ catalog' \in [Courses -> Looks]
    /\ \A c \in busy : catalog'[c] = "ARCHIVED" => catalog[c] = "ARCHIVED"
    /\ UNCHANGED busy

StartTeaching(c) ==
    /\ c \notin busy
    /\ catalog[c] = "PUBLIC"
    /\ busy' = busy \cup {c}
    /\ UNCHANGED catalog

StopTeaching(c) ==
    /\ c \in busy
    /\ busy' = busy \ {c}
    /\ UNCHANGED catalog

Next == MoveCatalog \/ \E c \in Courses : StartTeaching(c) \/ StopTeaching(c)

Spec == Init /\ [][Next]_vars

\* A course with an active intake is not archived, whoever archives it:
\* learningService.repository.js:164-167, category.repository.js:112-120,
\* course.repository.js:187-189.
NobodyLeftBehind == \A c \in busy : catalog[c] # "ARCHIVED"
=============================================================================
