CONSTANTS
    c1 = c1
    c2 = c2
    s1 = s1
    s2 = s2
    Creations = {c1}
    Sweeps = {}
    Names = {new}
    Seeded = {}
    Subjects = {k1, k2}
    FaultKinds = {"commit_lost"}
    MaxFaults = 1
    Crews <- OneCreation
    None = None
SPECIFICATION Spec
CHECK_DEADLOCK FALSE
INVARIANTS
    LinkedHealthy
