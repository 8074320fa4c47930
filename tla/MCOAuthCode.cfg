SPECIFICATION Spec
CONSTANTS
    Id = {f1, f2}
    Caller = {c1, c2}
    State = {s1, s2}
    MaxFlows = 1
    Retention = 1
    MaxTime = 3
    None = None
    Thread = {t1, t2}
    Method = {"browser", "manual"}
    TTL = 1
    Interval = 1
    SlowDownStep = 1
    Unreliable = TRUE
    MaxOps = 4
SYMMETRY Symmetric
INVARIANTS
    FlowsHonest
    StoreExact
PROPERTIES
    ImplementsGrant
