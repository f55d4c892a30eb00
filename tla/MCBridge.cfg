\* Timely messages, where the grace exceeds the dispatch window by more than the
\* latency and the skew together, and messages that take any time.
CONSTANTS
    h1 = h1
    h2 = h2
    usdc = usdc
    xlm = xlm
    e1 = e1
    e2 = e2
    Intents = {h1, h2}
    SourceAsset <- MCAsset
    SourceAmount <- MCAmount
    MinDestAmount <- MCMinDest
    Deadline <- MCDeadline
    PreferredSolver <- MCPreferred
    DestAsset <- MCDestAsset
    Assets = {usdc}
    NoAsset = NoAsset
    Solvers = {e1, e2}
    NoSolver = NoSolver
    User = User
    StellarPeer = StellarPeer
    NoPeer = NoPeer
    Admin = Admin
    NoAccount = NoAccount
    StellarAccounts = {solver}
    EvmEid = evm
    NoEid = NoEid
    FillAmounts = {1, 2}
    ConfirmationGrace = 4
    MinConfirmationGrace = 1
    MaxConfirmationGrace = 5
    MinDispatchWindow = 1
    MaxDeadlineHorizon = 4
    StartTime = 1
    MaxTime = 8
    Timings <- MCTimings
SPECIFICATION MCSpec
INVARIANT ChainsAgree
PROPERTIES KeepsPromise
CHECK_DEADLOCK FALSE
