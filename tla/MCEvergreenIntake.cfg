SPECIFICATION Spec
CONSTANTS
    paidCourse = paidCourse
    freeCourse = freeCourse
    i1 = i1
    i2 = i2
    s1 = s1
    s2 = s2
    Courses <- EvergreenCourses
    Intakes <- PaidIntakes
    Students <- TwoStudents
    CourseOf <- EvergreenCourseOf
    FreeCourses <- EvergreenCourses
    CertifiedCourses <- EvergreenCourses
    Capacities = {1}
    Unlimited = Unlimited
    Seeded = {i1}
SYMMETRY StudentSymmetry
INVARIANTS
    OpenFreeIntakeShowsLesson
