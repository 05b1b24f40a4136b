\* Directories of different compressions, a chain of three, two faults, one lost state.
CONSTANTS
    NBlocks = 2
    NChildren = 2
    Concurrency = 2
    Transfer = "copy"
    MaxFaults = 2
    MaxLost = 1
    None = None
SPECIFICATION Spec
INVARIANTS
    NoBlockLost
    CheckpointIsMerged
PROPERTIES
    ImplementsChainMerge
CHECK_DEADLOCK FALSE
