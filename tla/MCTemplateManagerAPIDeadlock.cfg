\* One request is enough: it holds the outer RLock of getBuilderClient
\* while the health goroutine waits in Lock.
CONSTANTS
    Requests = {r1}
    Builds = {b1, b2}
    None = None
SPECIFICATION Spec
PROPERTY BuildRequestAnswered
CHECK_DEADLOCK FALSE
