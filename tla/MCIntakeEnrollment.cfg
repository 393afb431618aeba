SPECIFICATION Spec
CONSTANTS
    paidCourse = paidCourse
    freeCourse = freeCourse
    i1 = i1
    i2 = i2
    s1 = s1
    s2 = s2
    Courses <- PaidCourses
    Intakes <- PaidIntakes
    Students <- TwoStudents
    CourseOf <- PaidCourseOf
    FreeCourses = {}
    CertifiedCourses <- PaidCourses
    Capacities = {1}
    Unlimited = Unlimited
    Seeded = {}
SYMMETRY PaidSymmetry
INVARIANTS
    TypeOK
    NoActiveLearnerInFinishedIntake
    OneOpenIntakePerCourse
    LedgerMatchesPaymentStatus
    CertificateIsEarned
    BadgeIsCurrent
    CompletedIntakeIsFinished
PROPERTIES
    HistoryIsFrozen
    OversoldOnlyByReturn
    ImplementsCatalogView
