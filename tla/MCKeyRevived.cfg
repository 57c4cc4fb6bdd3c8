SPECIFICATION ConsoleSpec
CONSTANTS
    None = None
    Parts = {"access"}
    Identities <- MCIdentities
    Pages = {"dashboard", "login", "models", "privacy"}
    MaxLogins = 2
    MaxMoves = 3
    Windows = {"24h", "7d"}
    FirstWindow = "24h"
    MaxLoads = 3
    Texts <- MCTexts
    Lengths = {2}
    Options = {"phrase", "wholeWord"}
    MaxSets = 2
    Builtin = {"openai"}
    Addresses = {"x"}
    MaxEdits = 2
    MaxOthers = 1
    MaxKeys = 4
    MaxOpens = 2
    Clients = {c1, c2}
    Admins = {a1, a2}
    Quota = 2
    MaxTokens = 2
    MaxUsed = 8
    Callers = {q1, q2}
    TTL = 2
    Slow = 1
    LastPage = 2
    Views <- AllViews
    Filters = {"all", "f"}
    AllRows = "all"
    MaxLoad = 3
    MaxWrites = 2
    MaxPage = 2
INVARIANT DeletedKeyDead
CHECK_DEADLOCK FALSE
