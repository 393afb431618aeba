SPECIFICATION LockedSpec
CONSTANTS
    paidCourse = paidCourse
    freeCourse = freeCourse
    i1 = i1
    s1 = s1
    s2 = s2
    w1 = w1
    w2 = w2
    service = service
    category = category
    Courses <- PaidCourses
    Intakes = {i1}
    Students = {s1, s2}
    CourseOf <- OnePaidCourseOf
    FreeCourses = {}
    CertifiedCourses <- PaidCourses
    Capacities = {1}
    Unlimited = Unlimited
    Seeded = {}
    Workers <- TwoWorkers
    Services <- OneService
    Categories <- OneCategory
    ServiceOf <- ServiceOfCategory
    CategoryOf <- PaidCategoryOf
    CoursesIn <- PaidIn
    Requests <- PaidCalls
    NoRequest = NoRequest
    Promotable = {}
SYMMETRY WorkerSymmetry
INVARIANT GuardHoldsUntilCommit
PROPERTY ImplementsIntakeEnrollment
