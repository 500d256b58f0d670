SPECIFICATION Spec
CONSTANTS
    PoolSize = 3
    AuthPoolSize = 2
    Runs = {"r1", "r2"}
    ScopeLock <- MCScopeLock
    Workers = {"w1", "w2"}
    RunOf <- MCRunOf
    TicketLocks = {ticket}
    Jobs = {"poll", "maintenance"}
    JobLock <- MCJobLock
    Patient = {"maintenance"}
    Mutations = {"m1", "m2", "m3"}
    UserLock <- MCUserLock
    Registry = registry
    NoLock = noLock
    None = none
    scope1 = scope1
    scope2 = scope2
    auto = auto
    user1 = user1
    user2 = user2
INVARIANTS
    StuckOnlyWhenPinned
CHECK_DEADLOCK FALSE
