\* Two local remotes, two schedules.
CONSTANTS
    Remotes = {r1, r2}
    Schedules = {s1, s2}
    SnapshotRetention = 0
    ExportRetention = 2
    MaxMergedDeltasPerRun = 9
    DeleteFirst = FALSE
    FullInterval = 2
    Locks = TRUE
    Failures = {"writer", "transfer", "cache", "pool", "crash"}
    MaxRuns = 3
    MaxFaults = 1
    MaxDeleted = 1
    None = None
    r1 = r1
    r2 = r2
    s1 = s1
    s2 = s2
SPECIFICATION Spec
SYMMETRY Symmetry
INVARIANTS
    TypeOK
    BackupsKept
    RetentionReached
    ChainBounded
    BaseReady
