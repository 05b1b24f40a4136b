\* One task, one VM and the pool, two changes, one fault, two connections.
CONSTANTS
    Tasks = {t1}
    VMs = {v1}
    Pool = pool
    None = None
    MaxEvents = 2
    MaxFaults = 1
    MaxConnects = 2
SPECIFICATION Spec
INVARIANTS
    TypeOK
    NoEventLost
    TasksCounted
PROPERTIES
    BarrierByEvents
    CacheConverges
    WatchersSettle
CHECK_DEADLOCK FALSE
