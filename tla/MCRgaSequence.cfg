CONSTANTS
    Peers = {1, 2}
    MaxInserts = 4
    MaxDeletes = 1
SPECIFICATION Spec
INVARIANTS
    NothingLost
    StrongConvergence
    IncrementalIsRebuild
PROPERTIES
    OrderIsStable
