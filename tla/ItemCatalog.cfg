CONSTANTS
    i1 = i1
    i2 = i2
    c1 = c1
    q1 = q1
    None = None
    Malformed = Malformed
    Items = {i1, i2, p1, p2}
    Categories = {c1, q1}
    ItemRequests = {p1, p2}
    CategoryRequests = {q1}
    ItemInputs <- SomeItems
    CategoryInputs <- SomeNames
    Seed <- TwoItemsOneCategory
    MaxFaults = 1
SYMMETRY Symmetric
SPECIFICATION Spec
INVARIANTS
    TypeOK
    CatalogConsistent
PROPERTIES
    ImplementsCatalog
