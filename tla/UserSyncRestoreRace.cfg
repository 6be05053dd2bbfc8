CONSTANTS
    Updates = {u1, u2}
    Sweeps = {}
    Profiles = {old}
    TakenProfiles = {}
    Roles = {"employee", "auditor"}
    FaultKinds = {"refused"}
    MaxFaults = 1
    None = None
SPECIFICATION Spec
CHECK_DEADLOCK FALSE
INVARIANTS
    AgreeOrFlagged
SYMMETRY Symmetric
