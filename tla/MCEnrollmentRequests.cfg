SPECIFICATION RequestSpec
CONSTANTS
    course = course
    i1 = i1
    i2 = i2
    s1 = s1
    r1 = r1
    r2 = r2
    w1 = w1
    w2 = w2
    Courses <- OneCourse
    Intakes <- TwoIntakes
    Students <- OneStudent
    CourseOf <- SameCourse
    FreeCourses = {}
    CertifiedCourses = {}
    Capacities = {1}
    Unlimited = Unlimited
    Seeded = {}
    Requests <- TwoRequests
    OwnerOf <- SameOwner
    AskedFor <- SameAsked
    Workers <- TwoWorkers
    NoSeat = NoSeat
    NoIntake = NoIntake
    NoCall = NoCall
CHECK_DEADLOCK FALSE
SYMMETRY RequestSymmetry
INVARIANTS
    EnrolledRequestHasItsSeat
PROPERTIES
    SecondOpenOnlyByAnswer
