\* Each part on its own, side by side in one run.
CONSTANTS
    Parts = {"escrow nonces", "settlement nonces", "rules", "encodings", "startup", "rate limit",
             "timelock: owners", "timelock: threshold", "timelock: delay", "timelock: limits",
             "governance"}
    MaxNonce = 9
    WordBits = 3
    MaxPruneWordsPerCall = 2
    Candidates <- MCCandidates
    I128Max = 3
    U128Max = 6
    Uint256Max = 9
    MaxDeadlineHorizon = 2
    LastIntentTime = 3
    KeyBytes = 2
    Keys <- MCKeys
    Amounts <- MCAmounts
    MaxDecimals = 2
    Environments <- MCEnvironments
    DefaultConfirmations = 6
    DefaultMargin = 15
    Clients = {a}
    ReadLimit = 2
    WriteLimit = 1
    Window = 2
    LastRequestTime = 4
    MaxRequests = 4
    Accounts = {"a", "b", "c"}
    InitialOwners = {"a", "b", "c"}
    InitialThreshold = 2
    InitialDelay = 1
    Operations <- MCOperations
    Call <- MCCall
    GracePeriod = 1
    MinDelay = 1
    MaxDelay = 2
    LastTimelockTime = 4
    Principals = {"admin", "endpoint", "next"}
    FirstAdmin = "admin"
    FirstEndpoint = "endpoint"
    Chains = {1}
    Peers = {"p", "q"}
    NoPeer = "none"
    OpenIntents = {"h"}
    MinPeerChangeDelay = 2
    MaxPeerChangeDelay = 3
    PeerChangeGrace = 1
    Delays = {1, 2, 4}
    LastGovernanceTime = 5
SPECIFICATION MCSpec
INVARIANTS NoncesAreKept BuiltIsAccepted VerifiedIsValid FormsAreFaithful OneDeployment RateHolds
           TimelockStaysUsable VerdictGoesHome
PROPERTIES AcceptsEachNonceOnce BitmapAcceptsEachNonceOnce ExecutedByQuorum
CHECK_DEADLOCK FALSE
