SPECIFICATION FairSpec
CONSTANTS
    k1 = k1
    k2 = k2
    standard = standard
    billing = billing
    None = None
    Key = {k1, k2}
    Class = {standard, billing}
    Policy <- TwoPolicies
    Thread = {t1}
    Lists <- Failover
    Errors <- RoutingErrors
    Attempts = 2
    Changes = TRUE
    MaxRuns = 2
    MaxTime = 2
INVARIANTS
    OutputIsFinal
    NoStreamLeaks
    TriesAccounted
PROPERTIES
    ExecutionsEnd
