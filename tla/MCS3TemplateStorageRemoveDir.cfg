\* RemoveDir's promise, with DeleteObjects refusing some keys.
CONSTANTS
    ObjectSizes <- MCObjectSizes
    BufLens <- MCBufLens
    Keys <- MCKeys
    PageSize <- MCPageSize
SPECIFICATION Spec
INVARIANT RemoveDirEmptiesPrefix
CHECK_DEADLOCK FALSE
