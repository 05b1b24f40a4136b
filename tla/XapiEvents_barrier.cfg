\* One VM that changes while the objects are fetched, and a barrier.
CONSTANTS
    Tasks = {t1}
    VMs = {v1}
    Pool = pool
    None = None
    MaxEvents = 2
    MaxFaults = 0
    MaxConnects = 1
SPECIFICATION Spec
PROPERTIES
    BarrierWaits
CHECK_DEADLOCK FALSE
