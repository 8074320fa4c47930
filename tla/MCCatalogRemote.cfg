SPECIFICATION Spec
CONSTANTS
    p1 = p1  p2 = p2  p3 = p3  t1 = t1  t2 = t2  t3 = t3
    Proc = {p1, p2}
    Thread = {t1, t2, t3}
    ProcOf <- ThreeGoroutines
    SchemaOf <- OneSchema
    Rows = {"empty"}
    NoRows = "empty"
    Conditional = TRUE
    KeepStale = TRUE
    Modes = {"hard", "soft"}
    Rebase = {FALSE}
    TTL = 1
    MaxTime = 1
    MaxOps = 3
    None = None
INVARIANT NoResurrection
