SPECIFICATION Spec
CONSTANTS
    Paths = {"a", "b", "c"}
    MaxTexts = 4
    Deployments <- PublishUnsaved
INVARIANT
    CleanMeansSaved
