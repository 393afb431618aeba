--------------------------- MODULE MCLessonDelivery --------------------------
(* One evergreen intake, open and with one released lesson as the seed       *)
(* leaves it, one student, a library of two sessions.                        *)
EXTENDS LessonDelivery

CONSTANTS c1, i1

MCCourseOf == [i \in Intakes |-> c1]
=============================================================================
