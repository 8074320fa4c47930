SPECIFICATION FairSpec
CONSTANTS
    Thread = {t1, t2}
    MaxItems = 3
    MaxCalls = 5
INVARIANTS
    EndsTrue
    NoneOutlives
PROPERTIES
    CloseReturns
