\* The admin changes the length of the window, disables and resets it, and
\* changes the maximum.
CONSTANTS
    h1 = h1
    h2 = h2
    h3 = h3
    h4 = h4
    xlm = xlm
    evm = evm
    e1 = e1
    StartTime = 2
    MaxTime = 7
    ConfiguredMaxAmount = 0
    ConfiguredDuration = 2
    ConfiguredCap = 3
    AmountMaxima = {1}
    WindowDurations = {0, 2, 3}
    WindowCaps = {3}
    Intents = {h1, h2, h3, h4}
    MinDestAmount <- MCMinDest
    Deadline <- MCDeadline
    DestAsset <- MCDestAsset
    ContractTokens = {}
    Eids = {evm}
    NoEid = NoEid
    EvmSolvers = {e1}
    NoSolver = NoSolver
    Accounts = {solver}
    NoAccount = NoAccount
    FillAmounts = {}
    MinDispatchWindow = 1
    MaxDeadlineHorizon = 8
    DispatchRewardGrace = 1
    Inbound <- MCInbound
    PauseFlags = {}
    Rewards = {}
    InitialReserve = 0
    MaxReserve = 0
SPECIFICATION WindowSpec
INVARIANT WindowCapHolds
CHECK_DEADLOCK FALSE
