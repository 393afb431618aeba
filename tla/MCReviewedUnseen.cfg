SPECIFICATION Spec
CONSTANTS
    p1 = p1
    p2 = p2
    p3 = p3
    d1 = d1
    d2 = d2
    Projects <- MCProjects
    Certificates <- MCCertificates
    Limit = 1
    Every = Every
    Nothing = Nothing
PROPERTY ReviewerSawWhatIsPublished
