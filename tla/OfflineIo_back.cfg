SPECIFICATION Spec
CONSTANTS
    Accounts = {a1, a2}
    RestartLimit = 2
    ApiAccounts = {}
    MaxCalls = 1
INVARIANT NetworkBackRunsIo
