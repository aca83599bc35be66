\* The Service.Close comment on a nil shutdown.op.
CONSTANTS

    MaxErrors <- MCMaxErrors
SPECIFICATION Spec
INVARIANT CloseSkipsOnlyAfterStartupError
CHECK_DEADLOCK FALSE
