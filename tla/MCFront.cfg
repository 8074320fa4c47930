SPECIFICATION FairSpec
CONSTANTS
    north = north  south = south
    Provider = {north, south}
    Routes <- FailoverOrDirect
    MaxFrames = 4
    MaxChanges = 1
    Name = {north, south}
    RouterThread = {t1, t2}
    Threshold = 2
    Cooldown = 1
    MaxClock = 4
    MaxResults = 4
    Nobody = Nobody
    PageToken = {k1, k2, k3}
    NoPage = NoPage
    MaxPages = 3
    MaxModels = 3
    PageRows = {0, 1, 2}
    Second = 3
    MaxDuration = 7
    MaxRecord = 5
    Buffer = 2
    Scripts <- UpToThreeLines
    Cases <- AdapterCases
    RequestLosses <- LostOnTheWay
    OtherLosses <- LostOnTheWayBack
    Surface = {"chat_completions", "responses", "messages"}
    Stacks <- SomeStacks
    DaemonSurfaces <- DaemonChats
    Rows <- SomeRows
    FreshFor = 2
    Horizon = 5
    Unreported = Unreported
INVARIANTS
    AnswersHonest
    BreakerExact
    ExchangeHonest
    RecordsRelayed
    LossesDecided
    TransportHonest
PROPERTIES
    RequestsAnswered
    TrustOnlyLapses
CHECK_DEADLOCK FALSE
