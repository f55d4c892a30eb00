\* A reorg, for the claim that a rollback does not move the cursor forward.
CONSTANTS
    Msgs = {m1}
    Confirmations = 1
    StartBlock = 1
    MaxAttempts = 2
    HasEndpoint = TRUE
    MaxHeight = 3
    MaxFaults = 2
SPECIFICATION FairSpec
PROPERTY RollbackNeverAdvances
CHECK_DEADLOCK FALSE
