SPECIFICATION Spec
CONSTANTS
    Peers = {1, 2, 3}
    Deployments <- Register
    MaxPendingBuffer = 10
INVARIANTS Convergence
