SPECIFICATION FairSpec
CONSTANTS
    Emails = {e1, e2}
    Requests = {r1, r2}
    MaxTokens = 3
    FirstIsAdmin = TRUE
    None = None
INVARIANTS
    TypeOK
    SuccessorConsumesParent
    RegistrationsInOrder
PROPERTIES
    RevokedForever
    RevocationScoped
    
    ImplementsStore
