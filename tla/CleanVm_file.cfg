\* VHD files, two backups deleted, one crash at any step.
CONSTANTS
    NVhds = 3
    NBlocks = 1
    Concurrency = 1
    Transfer = "file"
    MaxDeleted = 2
    MaxCrashes = 1
    CrashSteps = {"none", "blocks", "failing", "cleanState", "rename", "oldTarget", "children"}
    None = None
SPECIFICATION FairSpec
INVARIANTS
    ListedRestorable
PROPERTIES
    EventuallyTidy
