SPECIFICATION FairSpec
CONSTANTS
    Accounts = {a1, a2}
    RestartLimit = 12
    ApiAccounts = {a1}
    MaxCalls = 3
INVARIANTS TypeOK OneChain GivesUpInTime WindowAgrees WatchAgrees
PROPERTIES IoAsAsked ServerReplaced
