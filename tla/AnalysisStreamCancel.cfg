CONSTANTS
    FieldCount = 2
    DeltaFields <- MeaningOnly
    Forwarded <- Everything
    MaxLines = 2
SPECIFICATION Spec
PROPERTY ClosedByCancelIsCancelled
CHECK_DEADLOCK FALSE
