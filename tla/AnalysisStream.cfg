CONSTANTS
    FieldCount = 2
    DeltaFields <- MeaningOnly
    Forwarded <- Everything
    MaxLines = 2
SPECIFICATION Spec
INVARIANTS
    NoLostWakeup
    CancelReachesReader
PROPERTY ClientSeesProtocol
CHECK_DEADLOCK FALSE
