SPECIFICATION OSpec
CONSTANTS
    Payloads = {1, 2, 3, 4}
    Torn = Torn
    MaxWrites = 4
    MaxGeneration = 3
    MaxCorruptions = 1
    Corruptible = {"superblock"}
    MaxAppends = 2
INVARIANTS
    NothingDestroyed
PROPERTIES
    
    SoleGoodSlotSpared
