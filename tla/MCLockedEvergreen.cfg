SPECIFICATION FairLockedSpec
CONSTANTS
    paidCourse = paidCourse
    freeCourse = freeCourse
    i1 = i1
    s1 = s1
    s2 = s2
    w1 = w1
    w2 = w2
    service = service
    category = category
    Courses <- FreeOnly
    Intakes = {i1}
    Students = {s1}
    CourseOf <- OneFreeCourseOf
    FreeCourses <- FreeOnly
    CertifiedCourses <- FreeOnly
    Capacities = {1}
    Unlimited = Unlimited
    Seeded = {i1}
    Workers <- TwoWorkers
    Services <- OneService
    Categories <- OneCategory
    ServiceOf <- ServiceOfCategory
    CategoryOf <- FreeCategoryOf
    CoursesIn <- FreeIn
    Requests <- EvergreenCalls
    NoRequest = NoRequest
    Promotable = {s1}
INVARIANTS
    NoWaitCycle
PROPERTY EveryCallEnds
