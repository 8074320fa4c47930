SPECIFICATION Spec
CONSTANTS
    p1 = p1  p2 = p2  p3 = p3  t1 = t1  t2 = t2  t3 = t3
    Proc = {p1, p2, p3}
    Thread = {t1, t2, t3}
    ProcOf <- EachItsOwn
    SchemaOf <- TwoSchemas
    Rows = {"rows", "empty"}
    NoRows = "empty"
    Conditional = TRUE
    KeepStale = TRUE
    Modes = {"hard"}
    Rebase = {FALSE}
    TTL = 1
    MaxTime = 2
    MaxOps = 3
    None = None
INVARIANTS
    Fenced
    SchemaIsolation
PROPERTIES
    ObservedNeverRegresses
