SPECIFICATION FairSpec
CONSTANTS
    Ids = {1, 2}
    MaxCalls = 2
    EARLY_EVENTS = 16
    Budgets <- MCBudgets
INVARIANTS TypeOK CoreToldOnce AppAgrees
PROPERTIES NeverForOthers RingingEnds
CHECK_DEADLOCK FALSE
