\* Two concurrent token requests (docker push) for one new template.
CONSTANTS
    Requests = {r1, r2}
    Templates = {t1}
    None = None
SPECIFICATION Spec
SYMMETRY Symmetry
INVARIANT EnsureFailsOnlyOnAWSError
CHECK_DEADLOCK FALSE
