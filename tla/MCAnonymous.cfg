SPECIFICATION Spec
CONSTANTS
    plain = plain  codex = codex  a = a  spaced = spaced  b = b  B = B  space = space
    RawId = {a, spaced, b, B, space, BlankId}
    TrimOf <- Trims
    BlankId = BlankId
    Codex = {codex}
    r1 = r1  r2 = r2
    Runner = {r1, r2}
    Kinds <- TwoRuns
    Stopped = r1
    Options <- TwoPolicies
    Profiles <- PlainThenCodex
    Lists <- SmallCatalogs
    Failures = {401}
    Preferred <- Reviewed
    Lexical <- InOrder
    LowerOf <- Lower
    Every = 1
    MaxStops = 2
    LastTime = 2
    MaxEdits = 1
INVARIANTS
    ChecksClaimed
    RecordHonest
PROPERTIES
    StopsReturn
CHECK_DEADLOCK FALSE
