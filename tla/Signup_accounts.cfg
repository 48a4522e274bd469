SPECIFICATION FairSpec
CONSTANTS
    MaxAttempts = 2
    Mine = {1}
    Spare = {}
    New = {2, 3}
    NoAccount = 0
    CallTimeout = 60
    Deadline = 30
    TransferDeadline = 1800
INVARIANTS TypeOK HoldsEnd OnlyOursUndone
PROPERTIES EverythingEnds
CHECK_DEADLOCK FALSE
