SPECIFICATION FairSpec
CONSTANTS
    p1 = p1  p2 = p2  p3 = p3  t1 = t1  t2 = t2  t3 = t3
    Proc = {p1}
    Thread = {t1, t2, t3}
    ProcOf <- OneProcess
    SchemaOf <- OneSchema
    Rows = {"empty"}
    NoRows = "empty"
    Conditional = FALSE
    KeepStale = TRUE
    Modes = {"hard", "soft"}
    Rebase = {TRUE, FALSE}
    TTL = 1
    MaxTime = 2
    MaxOps = 3
    None = None
INVARIANTS
    TypeOK
    Fenced
PROPERTIES
    DiscoveriesOrdered
    OperationsReturn
