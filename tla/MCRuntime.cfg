SPECIFICATION Spec
CONSTANTS
    alice = alice  oauth = oauth  static = static
    Thread = {t1, t2}
    Caller = {alice}
    Shared = Shared
    Key = {oauth, static}
    ApiKeys = {static}
    Kinds = {"invoke", "list", "transparent", "cached", "mode"}
    Policies <- Differing
    MaxTries = 2
    CatalogTTL = 2
    FreshFor = 1
    Tables <- SharedLogin
    Rebindings <- Own
    Revocable = {oauth}
    Answers = {"ok", "unauthorized", "failed", "ended"}
    MaxChanges = 1
    MaxGeneration = 2
    MaxRevision = 2
    MaxTime = 2
    MaxOps = 2
    None = None
SYMMETRY Interchangeable
INVARIANTS
    SettingsInEffect
    
    
    EvidenceHonest
CHECK_DEADLOCK FALSE
