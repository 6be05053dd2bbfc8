CONSTANTS
    i1 = i1
    i2 = i2
    ann = ann
    bob = bob
    w1 = w1
    w2 = w2
    None = None
    Requests <- PagesAndWrites
    Reads <- ThreePages
    KindsOf <- SomeKinds
    MaxConns = 2
    MaxFaults = 1
    Borrowers = {ann, bob}
    Items = {i1, i2}
    Limits <- SomeLimits
    SeedLoans <- OneLoan
    LoanOf <- LoansMade
SPECIFICATION FairSpec
CHECK_DEADLOCK FALSE
INVARIANTS
    TypeOK
    WalkComplete
    ShortPageEndsListing
    CleanExitAnsweredAll
PROPERTIES
    ShutdownCutsNoTransaction
    AcceptedRequestsEnd
    StopsOnSignal
