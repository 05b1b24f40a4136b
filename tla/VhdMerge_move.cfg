\* Directories of one compression, a chain of three, one fault, one lost state.
CONSTANTS
    NBlocks = 2
    NChildren = 2
    Concurrency = 2
    Transfer = "move"
    MaxFaults = 1
    MaxLost = 1
    None = None
SPECIFICATION Spec
INVARIANTS
    TypeOK
    NoBlockLost
    CheckpointIsMerged
    PublishedIsReadable
PROPERTIES
    ImplementsChainMerge
CHECK_DEADLOCK FALSE
