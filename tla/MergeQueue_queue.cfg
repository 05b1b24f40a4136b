\* Two backups of one VM, two tasks at a time, two faults.
CONSTANTS
    NTasks = 2
    v1 = v1
    VMs = {v1}
    VmOf <- TwoOfOne
    Concurrency = 2
    MaxPrefix = 2
    MaxTries = 2
    MaxSpawned = 2
    MaxFaults = 2
    None = None
SPECIFICATION Spec
INVARIANTS
    TypeOK
    MergeRemembered
    CleanedAlone
PROPERTIES
    Drained
    MergedInTheEnd
