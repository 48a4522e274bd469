SPECIFICATION Spec
CONSTANTS
    a1 = a1
    a2 = a2
    c1 = c1
    c2 = c2
    NoText = NoText
    Search = Search
    Accounts = {a1, a2}
    NoAccount = NoAccount
    Chats = {c1, c2}
    NoChat = NoChat
    Modes = {ordinary, archived}
    Ordinary = ordinary
    Queries = {NoText, Search}
    NoQuery = NoText
    Matches <- MCMatches
    VoiceChats = {c1}
    MutedChats = {c2}
    NoRow = NoRow
    Screenful = 1
    Budgets <- RowsBudgets
SYMMETRY AccountSymmetry
INVARIANTS TypeOK NoLostRefresh NoLostWakeup SettledInSync
PROPERTIES RowsNeverGoBack
CHECK_DEADLOCK FALSE
