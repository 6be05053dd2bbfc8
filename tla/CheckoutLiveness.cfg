CONSTANTS
    ann = ann
    bob = bob
    cam = cam
    None = None
    Users = {ann, bob}
    TokenRole <- AnnEmployeeBobAdmin
    Items = {i1}
    CheckoutRequests = {c1}
    ReturnRequests = {r1}
    DeleteRequests = {d1}
    ActivationRequests = {a1}
    DueInputs = {"later"}
    MaxFaults = 1
SPECIFICATION FairSpec
INVARIANTS
    SomeoneProceeds
PROPERTIES
    Answered
