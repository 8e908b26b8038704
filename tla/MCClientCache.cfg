SPECIFICATION FairSpec
CONSTANTS
    w1 = w1
    w2 = w2
    w3 = w3
    r1 = r1
    r2 = r2
    c1 = c1
    c2 = c2
    c3 = c3
    Worker <- MCWorker
    Region <- MCRegion
    Client <- MCClient
    None = None
INVARIANTS
    TypeOK
    MapAccessExclusive
PROPERTIES
    ImplementsMemo
    CallsReturn
