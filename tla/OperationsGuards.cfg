SPECIFICATION OperationSpec
CONSTANTS
    p1 = p1  e1 = e1
    q1 = q1  m1 = m1  m2 = m2  b1 = b1
    poll1 = poll1  poll2 = poll2
    x1 = x1  x2 = x2  x3 = x3
    Products = {p1}
    Engagements = {e1}
    ProductOf <- MCProductOf
    Requests = {q1, m1, m2}
    RunIds = {x1, x2, x3}
    RunIdOf <- MCRunIdOf
    FilterOf <- MCFilterOf
    StaleAge = 0
    Maintenances = {m1, m2}
    FactoryResets = {m1}
    Rebuilds = {}
    Pollers = {poll1, poll2}
    HostOf <- MCBoth
    Nobody = Nobody
    MaxTries = 1
    MaxWrites = 1
    Prompt = {q1, m1}
CHECK_DEADLOCK FALSE
INVARIANTS
    OneLockedOperation
    GuardsHaveOwners
    TimelyOperationsExclusive
