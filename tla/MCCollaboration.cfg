SPECIFICATION FairSpec
CONSTANTS
    Peers = {1, 2, 3}
    Deployments <- PairAndTrio
    MaxPendingBuffer = 10
INVARIANTS
    Convergence
    
    EnvelopesExact
    EffectsAreCausal
PROPERTIES
    EventuallyConverged
