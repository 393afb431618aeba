SPECIFICATION FairSpec
CONSTANTS
    paidCourse = paidCourse
    freeCourse = freeCourse
    i1 = i1
    i2 = i2
    s1 = s1
    s2 = s2
    Courses <- EvergreenCourses
    Intakes = {i1}
    Students = {s1}
    CourseOf <- OneFreeCourseOf
    FreeCourses <- EvergreenCourses
    CertifiedCourses = {}
    Capacities = {1}
    Unlimited = Unlimited
    Seeded = {}
PROPERTY DraftIsOpened
