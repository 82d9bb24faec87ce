SPECIFICATION RSpec
CONSTANTS
    Peers = {1, 2, 3, 4}
    Deployments <- All
    MaxPendingBuffer = 10
INVARIANTS
    IdsUnique
    ClockAhead
    NoGapAfterRecovery
    Convergence
    RestartInvisible
CHECK_DEADLOCK FALSE
