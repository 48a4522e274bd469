SPECIFICATION FairSpec
CONSTANTS
    Msgs = {1, 2, 3, 4}
    Starts <- MCStarts
    OPENING = 2
    PAGE = 1
    MARGIN = 1
    IN_FLIGHT = 2
INVARIANTS TypeOK FlagsTellTruth KeepsPlace RowsSettle
PROPERTIES RowsStay ViewFilled
CHECK_DEADLOCK FALSE
