SPECIFICATION Spec
CONSTANTS
    c1 = c1
    c2 = c2
    Calls <- TwoCalls
    MaxAttempts = 1
    MaxRows = 2
    MaxVersion = 2
    MaxSessions = 2
    MaxRecords = 4
SYMMETRY CallSymmetry
CHECK_DEADLOCK FALSE
INVARIANTS
    OneOpenArtifact
    LockedOutStaysOut
    ChallengeSignsOnce
    AcceptedUnderPassword
    AcceptedUnderRole
PROPERTIES
    NewestLinkResets
    SessionsEnd
