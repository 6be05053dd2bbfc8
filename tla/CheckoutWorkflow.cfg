CONSTANTS
    ann = ann
    bob = bob
    cam = cam
    None = None
    Users = {ann, bob}
    TokenRole <- AnnEmployeeBobAdmin
    Items = {i1}
    CheckoutRequests = {c1, c2}
    ReturnRequests = {r1}
    DeleteRequests = {d1}
    ActivationRequests = {a1, a2}
    DueInputs = {"later"}
    MaxFaults = 1
SYMMETRY Symmetric
SPECIFICATION CrewSpec
INVARIANTS
    StatusAgrees
    AnswersTruthful
    OnlyReturnAndDeletionDeadlock
    FailsOnlyByFault
PROPERTIES
    BorrowerActiveAtCommit
    ImplementsLedger
