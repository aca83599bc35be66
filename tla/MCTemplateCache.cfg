\* Both modes (MOCK_SANDBOX unset or "true"): GetTemplate, AddSnapshot, Fetch, eviction.
CONSTANTS
    Sandboxes = {s1, s2}
    None = None
    Modes = {FALSE, TRUE}
    Keys <- MCKeys
    SnapshotKeys <- MCSnapshotKeys
    TTL <- MCTTL
    MaxLifetime <- MCMaxLifetime
    MaxTime <- MCMaxTime
    MaxInstances <- MCMaxInstances
SYMMETRY SandboxSymmetry
SPECIFICATION Spec
INVARIANT StorageStampedeSafety
INVARIANT NoReadAfterClose
INVARIANT SnapshotDiffsResolvable
\* The model stops when the clock and the Template bound are used up; the
\* server itself simply idles there.
CHECK_DEADLOCK FALSE
PROPERTY CacheRefinesContract
