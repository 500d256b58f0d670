SPECIFICATION FairSpec
CONSTANTS
    f1 = f1  f2 = f2
    Findings = {f1}
    MaxGeneration = 2
    MaxCycles = 2
    MaxScans = 2
    MaxFailures = 1
    EngineerStatuses = {"resolve", "risk"}
    MaxMoves = 2
    ApprovalCloses = FALSE
    Reviewing = {"close_redmine", "engineer_approve"}
CHECK_DEADLOCK FALSE
INVARIANTS
    CyclesFollowClosing
    CyclesEarned
PROPERTIES
    SettledStays
    RiskReviewsSettle
    RecurrencesTicketed
