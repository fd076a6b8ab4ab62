SPECIFICATION BrowserFairSpec
CONSTANTS
    Users = {"u1"}
    AllTokens = {1, 2, 3, 4, 5, 6}
    Fetches = {f1, f2}
    f1 = f1
    c1 = c1
    c2 = c2
    c3 = c3
    p1 = p1
    p2 = p2
    Boot = Boot
    NoUser = NoUser
    NoToken = NoToken
    Lossy = TRUE
    Reloads = TRUE
    Forms = {"form1", "form2"}
    Empty = Empty
    TabCalls = {c1, c2, c3}
    MaxEdits = 3
    Problems = {p1, p2}
    Options = {"k1", "k2"}
    PageCalls = {c1, c2}
    MaxClicks = 5
    Practices <- ThePractices
    Filters <- TheFilters
    Limit = 2
    MaxPages = 2
    Queries = {"", "a", "ab"}
    Finds <- TheFinds
    Starts <- TheStarts
    MaxRequests = 1
    Failing = TRUE
    None = None
INVARIANTS
    
    GateMeansSignedOut
    PageIsTrue
PROPERTIES
    
    
    
    PageSettles
CHECK_DEADLOCK FALSE
