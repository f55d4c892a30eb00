\* Four locks against the rolling window; the owner reconfigures and resets it.
CONSTANTS
    h1 = h1
    h2 = h2
    h3 = h3
    h4 = h4
    usdc = usdc
    eurc = eurc
    s1 = s1
    stellar = stellar
    StartTime = 1
    MaxTime = 5
    Accounts = {alice}
    RoleCallers = {}
    ConfigCallers = {alice}
    ToggledAssets = {}
    NoAccount = NoAccount
    Deployer = alice
    GuardianPauseTtl = 2
    Assets <- MCAssets
    NoAsset = NoAsset
    ConfiguredMax <- MCMax
    ConfiguredGlobalMax = 0
    ConfiguredDuration = 2
    ConfiguredCap <- MCCap
    LockMaxima = {}
    WindowDurations = {2, 3}
    WindowCaps = {0, 3}
    Intents <- MCIntents
    SourceAsset <- MCAsset
    SourceAmount <- MCAmount
    MinDestAmount <- MCMinDest
    Deadline <- MCDeadline
    PreferredSolver <- MCPreferred
    Solvers = {s1}
    NoSolver = NoSolver
    User = User
    TransferFee <- MCFee
    LzFee = 1
    CallValues = {1}
    Peers = {stellar}
    NoPeer = NoPeer
    ConfiguredPeer = stellar
    ConfiguredGrace = 3
    MinConfirmationGrace = 1
    MaxConfirmationGrace = 3
    GraceValues = {}
    InboundMessages <- MCMessages
    InboundNonces = {1}
    MaxDonation = 0
SPECIFICATION WindowSpec
INVARIANT WindowCapHolds
CHECK_DEADLOCK FALSE
