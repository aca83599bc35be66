\* As MCS3ObjectRead.cfg, with empty buffers allowed.
CONSTANTS
    ObjectSizes <- MCObjectSizes
    BufLens <- MCBufLensWithEmpty
SPECIFICATION Spec
PROPERTY ReadAtReturns
CHECK_DEADLOCK FALSE
