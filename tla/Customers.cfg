SPECIFICATION BookSpec
CONSTANTS
    Request = {r1, r2}
    Account = {1, 2}
    Phone = {1, 2, 3, 4}
    None = none
    Caps <- SomeCaps
    Scopes <- SomeScopes
    Selections <- SomeSelections
    Imports <- SomeImports
    InitialBook <- Book
    MaxRequests = 2
    MaxOps = 1
INVARIANTS EvenShares
PROPERTIES AssignedWithinCap OnlyTheAsked
CHECK_DEADLOCK FALSE
SYMMETRY RequestSymmetry
