\* Two concurrent requests, each for its own build of one template.
CONSTANTS
    Requests = {r1, r2}
    Builds = {b1, b2}
    None = None
SPECIFICATION Spec
SYMMETRY RequestSymmetry
INVARIANT OneBuildInProgress
CHECK_DEADLOCK FALSE
