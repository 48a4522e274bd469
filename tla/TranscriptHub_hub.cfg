SPECIFICATION FairSpec
CONSTANTS
    Msgs = {1, 2, 3}
    Own = {3}
    Older = {1}
    Profiles = {"p1", "p2"}
    ProfileOf <- MCProfileOf
    Views = {1}
    Settings <- MCSettings
    AtStart <- MCAtStart
    NoJob = NoJob
    Budgets <- HubBudgets
INVARIANTS TypeOK OneJobEach NothingLost GoneLeavesNoRow ShownInSync
PROPERTIES NoneWaitsInVain
CHECK_DEADLOCK FALSE
