\* The fills, the memory and the quoting, each on its own.
CONSTANTS
    Parts = {"fills", "memory", "quote"}
    MaxLate = 1
    Intents = {i1, i2}
    Amount = 1
    Capital = 1
    Contested = {i2}
    MaxRetries = 1
    Deadline = 5
    FillHeadroom = 3
    DispatchWindow = 2
    WaitHeadroom = 1
    StatusDecoded = TRUE
    MaxTime = 5
    MaxCrashes = 1
    Hashes = {h1, h2}
    CacheSize = 1
    FillRetries = 1
    MinSeenTtl = 1
    NegativeTtl = 1
    FillDeadline = 3
    MaxTriggers = 2
    MaxUnrecoverable = 1
    PollInterval = 1
    MaxBackoff = 1
    MaxJitter = 0
    EstimatedFee = 1
    SpentGas = 1
    LastMemoryTime = 4
    MaxResubmissions = 1
    Quoted <- MCQuoted
    RateScale = 10
    BasisPoints = 1000
    SubBps = 10
    MinMarginBps = 20
    MaxPlausibleProfitBps = 100
    MinFillHeadroom = 2
    SourceFloor = 2
    DestFloor = 2
    GasBuffer = 1
    Quotes <- MCQuotes
    LastQuoteTime = 3
SPECIFICATION MCSpec
SYMMETRY MCSymmetry
INVARIANTS CapitalCovers ReportedIsDelivered MemoryIsSound FillPays TerminalIsDurable
PROPERTIES AbandonedOnlyBy
CHECK_DEADLOCK FALSE
