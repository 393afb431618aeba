\* One service with two categories, the first of two courses, two overlapping calls.
CONSTANTS
    s1 = s1
    k1 = k1
    k2 = k2
    c1 = c1
    c2 = c2
    a1 = a1
    a2 = a2
    Services = {s1}
    Categories = {k1, k2}
    Courses = {c1}
    ServiceOf <- MCServiceOf
    CategoryOf <- MCCategoryOf
    Slugs = {"a"}
    Admins = {a1, a2}
    Same = Same
    NoRow = NoRow
    NoPage = NoPage
SPECIFICATION Spec
SYMMETRY AdminSymmetry
INVARIANTS TypeOK PriceMatchesPolicy ArchivedCategoryIsEmpty StaleOnlyByLateArchive
PROPERTIES ImplementsCatalogView
CHECK_DEADLOCK TRUE
