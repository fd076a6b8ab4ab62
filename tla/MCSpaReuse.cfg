SPECIFICATION Spec
CONSTANTS
    Users = {"u1"}
    AllTokens = {1, 2, 3, 4, 5, 6}
    Fetches = {f1, f2}
    Boot = Boot
    NoUser = NoUser
    NoToken = NoToken
    Lossy = FALSE
    Reloads = FALSE
PROPERTIES
    NeverPresentsRotated
CHECK_DEADLOCK FALSE
