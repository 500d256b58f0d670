SPECIFICATION FairSpec
CONSTANTS
    mfa1 = mfa1  mfa2 = mfa2  pass1 = pass1
    w1 = w1  w2 = w2
    Jobs = {mfa1}
    TypeOf <- MCTypeOf
    Workers = {w1, w2}
    Nothing = Nothing
    MaxAttempts = 2
    MaxFaults = 1
    TimelyLease = TRUE
CHECK_DEADLOCK FALSE
INVARIANTS
    OneDeliverer
    SecretsScrubbed
    SentMeansMailed
PROPERTIES
    DeliveriesSettle
    DisabledTypeDrains
