\* Two concurrent requests (a retry) for the same build.
CONSTANTS
    Requests = {r1, r2}
    Builds = {b1, b2}
    None = None
SPECIFICATION Spec
SYMMETRY RequestSymmetry
INVARIANT BuildStartedOnce
CHECK_DEADLOCK FALSE
