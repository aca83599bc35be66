\* Two concurrent requests over two builds of one template, with the
\* health-sync goroutine changing the local status between their steps.
CONSTANTS
    Requests = {r1, r2}
    Builds = {b1, b2}
    None = None
SPECIFICATION Spec
SYMMETRY RequestSymmetry
INVARIANT BuildingOnlyAfterCreate
INVARIANT PlacementOnlyWhenHealthy
\* A request holding the outer RLock behind a waiting writer stops the
\* system (run tm_api_deadlock); requests otherwise all end.
CHECK_DEADLOCK FALSE
