SPECIFICATION Spec
CONSTANTS

    q1 = q1  q2 = q2  google = google  other = other
    Requests = {q1, q2}
    Providers = {google, other}
    MaxAttempts = 2
    Codes = {1, 2}
    MaxGenerations = 2
    MaxChallenges = 2
    MaxSessions = 3
    MaxStarts = 3
    MaxFaults = 1
SYMMETRY MCSymmetry
CHECK_DEADLOCK FALSE
INVARIANTS
    FactorsUsedOnce
    TemporaryIsReplaced
    SessionsEnd
PROPERTIES
    NewestEnrolls
