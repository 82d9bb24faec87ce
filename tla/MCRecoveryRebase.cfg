SPECIFICATION RSpec
CONSTANTS
    Peers = {1, 2, 3}
    Deployments <- RebaseBehind
    MaxPendingBuffer = 10
INVARIANTS ClockAhead
CHECK_DEADLOCK FALSE
