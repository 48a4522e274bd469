SPECIFICATION FairSpec
CONSTANTS
    k1 = k1
    k2 = k2
    Calls = {k1, k2}
    EventLoop = EventLoop
    NoAnswer = NoAnswer
    Budgets <- StreamBudgets
INVARIANTS TypeOK OwnAnswer WaitersAgree
PROPERTIES EventsInOrder EventsArrive CallsReturn

CHECK_DEADLOCK FALSE
