------------------------- MODULE MCIntakeEnrollment -------------------------
(* Small instances of IntakeEnrollment for TLC.                              *)
EXTENDS IntakeEnrollment, TLC

CONSTANTS paidCourse, freeCourse, i1, i2, s1, s2

\* Two intakes of one paid, certified course.
PaidCourses == {paidCourse}
PaidIntakes == {i1, i2}
PaidCourseOf == i1 :> paidCourse @@ i2 :> paidCourse
OnePaidCourseOf == i1 :> paidCourse

\* One seeded evergreen intake of a free course, and room for a later one.
EvergreenCourses == {freeCourse}
EvergreenCourseOf == i1 :> freeCourse @@ i2 :> freeCourse
OneFreeCourseOf == i1 :> freeCourse

TwoStudents == {s1, s2}
StudentSymmetry == Permutations(TwoStudents)
PaidSymmetry == StudentSymmetry \cup Permutations(PaidIntakes)
=============================================================================
