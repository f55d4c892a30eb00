\* Locks, inbound messages and refunds in every order, with a rolling window
\* that the two locks together breach; one lock under a busy owner; the roles.
CONSTANTS
    h1 = h1
    h2 = h2
    usdc = usdc
    s1 = s1
    s2 = s2
    stellar = stellar
    alice = alice
    Scenarios = {"messages", "owner", "roles"}
    StartTime = 1
    MaxTime = 6
    Accounts = {alice, bob}
    RoleCallers = {alice, bob}
    ConfigCallers = {alice}
    ToggledAssets = {usdc}
    NoAccount = NoAccount
    Deployer = alice
    GuardianPauseTtl = 2
    Assets = {usdc}
    NoAsset = NoAsset
    ConfiguredMax <- MCMax
    ConfiguredGlobalMax = 0
    ConfiguredDuration = 2
    ConfiguredCap <- MCCap
    LockMaxima = {0}
    WindowDurations = {}
    WindowCaps = {}
    Intents = {h1, h2}
    SourceAsset <- MCAsset
    SourceAmount <- MCAmount
    MinDestAmount <- MCMinDest
    Deadline <- MCDeadline
    PreferredSolver <- MCPreferred
    Solvers = {s1, s2}
    NoSolver = NoSolver
    User = User
    TransferFee <- MCFee
    LzFee = 1
    CallValues = {1}
    Peers = {stellar, other}
    NoPeer = NoPeer
    ConfiguredPeer = stellar
    ConfiguredGrace = 2
    MinConfirmationGrace = 1
    MaxConfirmationGrace = 3
    GraceValues = {0, 1, 3, 4}
    InboundMessages <- MCMessages
    InboundNonces = {1, 2, 3}
    MaxDonation = 1
SPECIFICATION MCSpec
INVARIANTS PaidOnce LiabilityMatchesLocks Solvent RefundIsInReach GuardianPauseWithinBounds
PROPERTY LocksAndPausesEnd
CHECK_DEADLOCK FALSE
