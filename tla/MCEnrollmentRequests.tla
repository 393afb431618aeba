------------------------ MODULE MCEnrollmentRequests ------------------------
(* Small instances of EnrollmentRequests for TLC: one paid course that runs  *)
(* twice, one student who files two requests.                                *)
EXTENDS EnrollmentRequests, TLC

CONSTANTS course, i1, i2, s1, r1, r2, w1, w2

OneCourse == {course}
TwoIntakes == {i1, i2}
OneStudent == {s1}
TwoRequests == {r1, r2}
TwoWorkers == {w1, w2}
SameCourse == i1 :> course @@ i2 :> course
SameOwner == r1 :> s1 @@ r2 :> s1
SameAsked == r1 :> course @@ r2 :> course

RequestSymmetry == Permutations(TwoRequests) \cup Permutations(TwoWorkers) \cup Permutations(TwoIntakes)
=============================================================================
