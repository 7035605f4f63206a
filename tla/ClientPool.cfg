SPECIFICATION FairSpec
CONSTANTS
    h = h  m1 = m1  m2 = m2  r = r
    NoJob = NoJob  NoClient = NoClient
    Jobs <- Three
    Parent <- Parents
    Clients = {c1, c2, c3}
    Endpoints = {e1, e2}
    MaxOpen = 2
    MaxCached = 1
    Retries = 2
INVARIANTS
    TypeOK
    TokensConserved
    ClientsOwned
    PooledAimAtCluster
PROPERTIES
    ImplementsLease
    CallsEnd
