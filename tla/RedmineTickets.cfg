SPECIFICATION FairSpec
CONSTANTS
    old = old  new = new  far = far  s1 = s1  s2 = s2  r1 = r1
    Keys = {old, new, far}
    Canonical <- MCCanonical
    Syncs = {s1}
    Requests = {r1}
    KeyOf <- MCKeyOf
    Foreign = 1
    Given <- MCGiven
    PageSize = 1
    MaxPages = 3
    MaxIssues = 3
    MaxMoves = 1
    MaxFaults = 1
CHECK_DEADLOCK FALSE
INVARIANTS
    DuplicatesWereMissed
    LinksMatch
PROPERTIES
    TicketsLinked
