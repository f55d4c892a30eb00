SPECIFICATION MCSpec
CONSTANTS
    h1 = h1
    h2 = h2
    h3 = h3
    h4 = h4
    Hashes = {h1, h2, h3, h4}
    Deadline <- MCDeadline
    MaxSize = 3
    ExpiryGrace = 1
    PageSize = 1
    MaxPages = 2
    MaxTime = 1
    Settling = {h1}
    FirstBlock = 0
    MaxBlockRange = 1
    TokenRequired = FALSE
    MaxBlocks = 2
    MaxStops = 1
INVARIANT FilledKeepsPolling
CHECK_DEADLOCK FALSE
