CONSTANTS
    Users = {u1}
    Requests = {r1}
    Lifetime = 1
    Skew = 1
    MaxOffset = 1
    MaxTime = 4
    MaxTokens = 1
    MaxChanges = 3
    None = None
SPECIFICATION Spec
CHECK_DEADLOCK FALSE
INVARIANTS
    TypeOK
    RoleExposureBounded
    FreshTokensAccepted
    DeactivatedRefused
