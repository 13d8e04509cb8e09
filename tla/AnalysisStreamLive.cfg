CONSTANTS
    FieldCount = 2
    DeltaFields <- Everything
    Forwarded <- MeaningOnly
    MaxLines = 1
SPECIFICATION FairSpec
PROPERTIES
    BothEnd
CHECK_DEADLOCK FALSE
