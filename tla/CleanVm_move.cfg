\* VHD directories of one compression, two backups deleted, one crash where no block moves and nothing commits.
CONSTANTS
    NVhds = 3
    NBlocks = 2
    Concurrency = 2
    Transfer = "move"
    MaxDeleted = 2
    MaxCrashes = 1
    CrashSteps = {"none", "failing", "oldTarget", "children"}
    None = None
SPECIFICATION Spec
INVARIANTS
    TypeOK
    BackupsKept
    BackupsRestorable
    ContentKept
