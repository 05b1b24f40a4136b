\* Two events and a file of two more, two calls beside them, and two failures or
\* crashes.
CONSTANTS
    e1 = e1
    e2 = e2
    f1 = f1
    f2 = f2
    Events = {e1, e2, f1, f2}
    File <- TwoRecords
    None = None
    MaxCalls = 2
    MaxFailures = 2
SPECIFICATION Spec
INVARIANTS
    TypeOK
    ChainIntact
    RecordsKept
PROPERTIES
    NoFalseAlarm
    Recorded
CHECK_DEADLOCK FALSE
