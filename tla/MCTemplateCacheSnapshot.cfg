\* Storage mode: AddSnapshot racing a GetTemplate of the snapshot key.
CONSTANTS
    Sandboxes = {s1, s2}
    None = None
    Modes = {FALSE}
    Keys <- MCKeys
    SnapshotKeys <- MCSnapshotKeys
    TTL <- MCTTL
    MaxLifetime <- MCMaxLifetime
    MaxTime <- MCMaxTime
    MaxInstances <- MCMaxInstances

SPECIFICATION Spec
PROPERTY SnapshotInstalled
CHECK_DEADLOCK FALSE
