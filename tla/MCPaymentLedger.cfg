SPECIFICATION LedgerSpec
CONSTANTS
    paidCourse = paidCourse
    i1 = i1
    s1 = s1
    s2 = s2
    Courses = {paidCourse}
    Intakes = {i1}
    Students = {s1, s2}
    CourseOf <- OnePaidCourseOf
    FreeCourses = {}
    CertifiedCourses = {paidCourse}
    Capacities = {}
    Unlimited = Unlimited
    Seeded = {}
    Prices = {3, 8}
    Discount <- SmallDiscount
    Days <- MonthEnds
    Lookbacks = {2, 6}
    Nothing = Nothing
SYMMETRY StudentSymmetry
INVARIANTS
    PaidWithinPrices
    ReportBalances
    RollupsAgree
    TrendCoversItsMonths
