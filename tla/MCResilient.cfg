SPECIFICATION Spec
CONSTANTS
    standard = standard
    billing = billing
    None = None
    Key = {k1}
    Class = {standard, billing}
    Policy <- TwoPolicies
    Thread = {t1, t2}
    Failures <- FewFailures
    Attempts = 2
    Transient = TRUE
    MaxRuns = 3
    MaxTime = 3
SYMMETRY Symmetric
INVARIANTS
    HealthExplained
    CountedOnce
    StreamsDiscarded
PROPERTIES
    DeadlinesKept
