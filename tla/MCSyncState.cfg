CONSTANTS
    Peers = {1, 2}
    Leased = {2}
    MaxOps = 3
    MaxCounter = 3
    MaxSpan = 2
    MaxEpoch = 1
SPECIFICATION Spec
INVARIANTS
    IInv
    NoSilentGap
    LeasedNeverRebased
    DeltaExact
    LoopIsPromotion
PROPERTIES
    HistoryMonotone
