\* Two backups, no merge: one is deleted and the other made while a list is being written.
CONSTANTS
    Backups = {b1, b2}
    MaxMerges = 0
    None = None
SPECIFICATION Spec
PROPERTIES
    CacheChecked
CHECK_DEADLOCK FALSE
