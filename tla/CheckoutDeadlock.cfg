CONSTANTS
    ann = ann
    bob = bob
    cam = cam
    None = None
    Users = {ann, bob}
    TokenRole <- AnnEmployeeBobAdmin
    Items = {i1}
    CheckoutRequests = {c1}
    ReturnRequests = {r1}
    DeleteRequests = {d1}
    ActivationRequests = {}
    DueInputs = {"later"}
    MaxFaults = 0
SPECIFICATION FairSpec
INVARIANTS
    AdministratorReturnsAnyActiveCheckout
