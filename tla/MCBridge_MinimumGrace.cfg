\* The smallest grace the escrow accepts, with timely messages.
CONSTANTS
    h1 = h1
    h2 = h2
    usdc = usdc
    xlm = xlm
    e1 = e1
    e2 = e2
    Intents = {h1}
    SourceAsset <- MCAsset
    SourceAmount <- MCAmount
    MinDestAmount <- MCMinDest
    Deadline <- MCDeadline
    PreferredSolver <- MCPreferred
    DestAsset <- MCDestAsset
    Assets = {usdc}
    NoAsset = NoAsset
    Solvers = {e1, e2}
    NoSolver = NoSolver
    User = User
    StellarPeer = StellarPeer
    NoPeer = NoPeer
    Admin = Admin
    NoAccount = NoAccount
    StellarAccounts = {solver, keeper}
    EvmEid = evm
    NoEid = NoEid
    FillAmounts = {1, 2}
    ConfirmationGrace = 1
    MinConfirmationGrace = 1
    MaxConfirmationGrace = 5
    MinDispatchWindow = 1
    MaxDeadlineHorizon = 4
    StartTime = 1
    MaxTime = 8
    Timings <- MCTimely
SPECIFICATION Spec
INVARIANT ConfirmedNeverRefunded
CHECK_DEADLOCK FALSE
