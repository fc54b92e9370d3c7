CONSTANTS
    Users = {alice, bob}
    Orders = {o1, o2}
    NULL = NULL
    MaxHistory = 2
    MaxLoads = 1
SPECIFICATION FairSpec
INVARIANTS
    TypeOK
    IdentityKept
    FreshPageIsTrue
PROPERTIES
    PageKeepsPromise
    RedirectOnce
    RedirectsEnd
