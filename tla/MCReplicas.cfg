SPECIFICATION Spec
CONSTANT Deployments <- AllDeployments
INVARIANTS
    Convergence
    BlocksConserved
    NoCounterHoles
    
    PagesEnumerate
PROPERTIES
    RestructureKeepsText
    
    NoFalseAccept
    
    LaterWritesWin
CHECK_DEADLOCK FALSE
