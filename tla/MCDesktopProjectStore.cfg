SPECIFICATION Spec
CONSTANTS
    Windows = {w1, w2}
    NoWindow = NoWindow
    Orphan = Orphan
    NoFile = NoFile
    LoadAttempts = 2
    MaxEdits = 2
    MaxEvents = 3
SYMMETRY WindowSymmetry
INVARIANTS
    TypeOK
    LockHeld
PROPERTIES
    NoSilentRevert
    OwnCreation
    LegacyTextKept
