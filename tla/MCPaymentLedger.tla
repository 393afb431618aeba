--------------------------- MODULE MCPaymentLedger ----------------------------
(* A paid, certified course with one intake and two students; an odd and an  *)
(* even price; the 29th of March, in a leap year and before one.               *)
EXTENDS PaymentLedger, TLC

CONSTANTS paidCourse, i1, s1, s2

OnePaidCourseOf == i1 :> paidCourse
SmallDiscount == paidCourse :> 3
MonthEnds == {<<2027, 3, 29>>, <<2028, 3, 29>>}
StudentSymmetry == Permutations({s1, s2})
=============================================================================
