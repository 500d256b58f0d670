SPECIFICATION Spec
CONSTANTS
    Engagements = {e1, e2}
    Archives = {a1, a2}
    Requests = {r1, r2}
    Nobody = nobody
    Absent = absent
    MaxRows = 2
    MaxStarts = 2
    MaxFaults = 1
SYMMETRY Symmetric
CHECK_DEADLOCK FALSE
INVARIANTS
    DeletedWasArchived
    DeletesAreAtomic
    SyncsObeyPolicies
