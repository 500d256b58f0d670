SPECIFICATION FairSpec
CONSTANTS
    Policies = {p1, p2}
    Off = off
    Hand = hand
    NoDate = nodate
    Absent = absent
    Refreshes = {r1}
    MaxChanges = 1
    MaxRefreshes = 1
    MaxEvents = 2
CHECK_DEADLOCK FALSE
INVARIANTS
    DuesFollowPolicies
PROPERTIES
    HandDatesKept
    PoliciesReachTickets
