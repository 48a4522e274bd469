SPECIFICATION FairSpec
CONSTANTS
    a1 = a1
    a2 = a2
    c1 = c1
    c2 = c2
    NoText = NoText
    Search = Search
    Accounts = {a1}
    NoAccount = NoAccount
    Chats = {c1, c2}
    NoChat = NoChat
    Modes = {ordinary}
    Ordinary = ordinary
    Queries = {NoText, Search}
    NoQuery = NoText
    Matches <- MCMatches
    VoiceChats = {c1, c2}
    MutedChats = {}
    NoRow = NoRow
    Screenful = 1
    Budgets <- LiveBudgets
PROPERTY EventuallyInSync
CHECK_DEADLOCK FALSE
