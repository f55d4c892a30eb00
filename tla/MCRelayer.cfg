\* One message, with a reorganisation, an end of the process or an operator in any two places.
SPECIFICATION FairSpec
CONSTANTS
    Msgs = {m1}
    Confirmations = 1
    StartBlock = 1
    MaxAttempts = 2
    HasEndpoint = TRUE
    MaxHeight = 3
    MaxFaults = 2
INVARIANTS RelayedIsFinal
PROPERTIES SkippedOnlyBy FinalIsResolvedWithKeys
CHECK_DEADLOCK FALSE
