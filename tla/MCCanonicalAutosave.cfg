SPECIFICATION Spec
CONSTANTS
    a = a
    b = b
    Tabs = {a, b}
    MaxEvents = 4
SYMMETRY TabSymmetry
INVARIANTS
    TypeOK
PROPERTIES
    StoredVersionRespected
    MergesOwnText
    ImportKeepsText
CHECK_DEADLOCK FALSE
