SPECIFICATION FairSpec
CONSTANTS
    p1 = p1  p2 = p2  e1 = e1  e2 = e2 
    A = A  B = B
    q1 = q1  q2 = q2  q3 = q3
    x1 = x1  x2 = x2
    Products = {p1, p2}
    Engagements = {e1, e2}
    ProductOf <- MCProductOf
    Requests = {q1, q2}
    RunIds = {x1, x2}
    RunIdOf <- MCPairIds
    FilterOf <- MCFilterPair
    StaleAge = 1
    Processes = {A, B}
    ServedBy <- MCPairServedBy
    Nobody = Nobody
    MaxTries = 2
    MaxBeats = 1
CHECK_DEADLOCK FALSE
PROPERTIES
    EveryRequestEnds
    EndedRunsExpire
