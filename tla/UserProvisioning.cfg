CONSTANTS
    c1 = c1
    c2 = c2
    s1 = s1
    s2 = s2
    Creations = {c1, c2}
    Sweeps = {s1, s2}
    Names = {tech, new}
    Seeded = {tech}
    Subjects = {k1, k2, k3, k4, k5, k6}
    FaultKinds = {"refused", "applied", "late", "commit_lost", "crash"}
    MaxFaults = 2
    Crews <- SmallCrews
    None = None
SPECIFICATION FairSpec
CHECK_DEADLOCK FALSE
INVARIANTS
    TypeOK
    AcknowledgedHealthy
    
PROPERTIES
    EventuallyWholeOrReported
    ImplementsAccounts
