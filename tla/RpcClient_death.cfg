SPECIFICATION FairSpec
CONSTANTS
    k1 = k1
    k2 = k2
    Calls = {}
    EventLoop = EventLoop
    NoAnswer = NoAnswer
    Budgets <- DeathBudgets
PROPERTY ServerGoneEndsStream

CHECK_DEADLOCK FALSE
