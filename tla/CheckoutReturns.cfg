CONSTANTS
    ann = ann
    bob = bob
    cam = cam
    None = None
    Users = {ann, bob, cam}
    TokenRole <- OneOfEachRole
    Items = {i1}
    CheckoutRequests = {c1, c2}
    ReturnRequests = {r1, r2}
    DeleteRequests = {}
    ActivationRequests = {}
    DueInputs = {"none", "elapsed", "sub_microsecond"}
    MaxFaults = 0
SPECIFICATION Spec
SYMMETRY Symmetric
INVARIANTS
    TypeOK
    HistoryChain
    AuditTrail
    ReturnedOnce
    LoansAuthorized
    AnswersTruthful
