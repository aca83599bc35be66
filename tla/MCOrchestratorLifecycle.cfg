\* Termination after a signal or a failed Start.  The process really stops
\* (exit, log.Fatalf or a panic), so terminal states are expected.
CONSTANTS

    MaxErrors <- MCMaxErrors
SPECIFICATION Spec
PROPERTY TerminatesOnSignalOrStartFailure
CHECK_DEADLOCK FALSE
