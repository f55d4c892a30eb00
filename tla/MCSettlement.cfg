\* One intent from two corridors: registration, both ways of filling,
\* dispatch and both cancels in every order, while the admin pauses, delists the
\* token and sets rewards that the reserve may not cover.
CONSTANTS
    h1 = h1
    usdc = usdc
    evm = evm
    other = other
    e1 = e1
    e2 = e2
    StartTime = 1
    MaxTime = 5
    ConfiguredMaxAmount = 0
    ConfiguredDuration = 0
    ConfiguredCap = 0
    AmountMaxima = {}
    WindowDurations = {}
    WindowCaps = {}
    Intents = {h1}
    MinDestAmount <- MCMinDest
    Deadline <- MCDeadline
    DestAsset <- MCDestAsset
    ContractTokens = {usdc}
    Eids = {evm, other}
    NoEid = NoEid
    EvmSolvers = {e1, e2}
    NoSolver = NoSolver
    Accounts = {solver, keeper}
    NoAccount = NoAccount
    FillAmounts = {1, 2, 3}
    MinDispatchWindow = 1
    MaxDeadlineHorizon = 3
    DispatchRewardGrace = 1
    Inbound <- MCInbound
    PauseFlags = {TRUE, FALSE}
    Rewards = {0, 1}
    InitialReserve = 0
    MaxReserve = 1
SPECIFICATION FairSpec
INVARIANTS MarkersMatchRecord DeliveredOnce VerdictsAddUp ExitsStayOpen
PROPERTIES VerdictIsFinal RegisteredEnds
CHECK_DEADLOCK FALSE
