\* Directories of different compressions: one crash.
CONSTANTS
    NBlocks = 2
    NChildren = 1
    Concurrency = 1
    Transfer = "copy"
    MaxFaults = 1
    MaxLost = 0
    None = None
SPECIFICATION Spec
INVARIANTS
    PublishedIsReadable
CHECK_DEADLOCK FALSE
