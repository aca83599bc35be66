\* ReadAt and Delete of one build, interleaved.
CONSTANTS
    ObjectSizes <- MCObjectSizes
    BufLens <- MCBufLens
    Keys <- MCKeys
    PageSize <- MCPageSize
SPECIFICATION Spec
PROPERTY ReadAtImplementsContract
INVARIANT RemoveDirLeavesOnlyRefused
PROPERTY DeleteReturns
\* Both calls return; nothing follows.
CHECK_DEADLOCK FALSE
