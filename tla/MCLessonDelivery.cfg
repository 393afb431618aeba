SPECIFICATION Spec
CONSTANTS
    c1 = c1
    i1 = i1
    Courses = {c1}
    Intakes = {i1}
    Students = {s1}
    CourseOf <- MCCourseOf
    FreeCourses = {c1}
    CertifiedCourses = {}
    Capacities = {}
    Unlimited = Unlimited
    Seeded = {i1}
    Sessions = {l1, l2}
    Example = l1
    Same = Same
    Nothing = Nothing
INVARIANTS
    NumbersSurviveRenumbering
    ContinueLeadsOn
PROPERTIES
    WatchableLessonStays
    CompletionsAreTheLearners
    ImplementsIntakeEnrollment
