\* VHD files, a chain of three, two faults, one lost state; the merge is asked for again.
CONSTANTS
    NBlocks = 2
    NChildren = 2
    Concurrency = 1
    Transfer = "file"
    MaxFaults = 2
    MaxLost = 1
    None = None
SPECIFICATION FairSpec
INVARIANTS
    NoBlockLost
    PublishedIsReadable
    CheckpointIsMerged
PROPERTIES
    ImplementsChainMerge
    EventuallyPublished
CHECK_DEADLOCK FALSE
