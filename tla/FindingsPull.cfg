SPECIFICATION Spec
CONSTANTS
    Findings = {1, 2}
    Engagements = {"e1", "e2"}
    Home <- MCHome
    Pulls = {p1, p2}
    Absent = absent
    MaxIds = 2
    MaxChanges = 2
    MaxRechecks = 1
SYMMETRY Symmetric
CHECK_DEADLOCK FALSE
INVARIANTS
    PullsMirror
    GenerationsAreEarned
PROPERTIES
    GenerationsGrow
