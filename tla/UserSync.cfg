CONSTANTS
    Updates = {u1, u2}
    Sweeps = {s1}
    Profiles = {old, new, taken}
    TakenProfiles = {taken}
    Roles = {"employee", "auditor"}
    FaultKinds = {"refused", "applied", "late", "commit_lost", "crash"}
    MaxFaults = 2
    MaxTrouble = 3
    None = None
SPECIFICATION GapSpec
CHECK_DEADLOCK FALSE
INVARIANTS
    TypeOK
    AgreeOrFlaggedUnlessGap
    OneManagedRoleUnlessGap
PROPERTIES
    NoLostUpdate
    EventuallyAgree
