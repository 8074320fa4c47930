SPECIFICATION FairSpec
CONSTANTS
    Id = {f1}
    Caller = {c1, c2}
    State = {s1}
    MaxFlows = 0
    Retention = 1
    MaxTime = 4
    None = None
    Thread = {t1, t2}
    Method = {"device"}
    TTL = 3
    Interval = 1
    SlowDownStep = 1
    Unreliable = FALSE
    MaxOps = 4
INVARIANTS
    FlowsHonest
    PollsSpaced
PROPERTIES
    FlowsAdvance
    ConsumedIsSettled
