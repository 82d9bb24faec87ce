SPECIFICATION FairSpec
CONSTANTS
    Paths = {"a", "b", "c"}
    MaxTexts = 4
    Deployments <- All
INVARIANTS
    AllOrNothing
    CleanMeansSaved
    NoOrphanTemps
    
    IdentityUnique
PROPERTIES
    Refines
    
