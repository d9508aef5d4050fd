SPECIFICATION Spec
CONSTANTS
    RetainedChains = 2
    Autosaves = {a1, a2}
    Resets = {x1, x2}
    ProjectAdmitted = TRUE
    MaxEvents = 3
    MaxPasses = 2
INVARIANTS
    TypeOK
    NoStaleConnection
    ResetLeavesNothing
PROPERTIES
    TornDownBeforeDeletion
    FlushMeansSaved
    NeverOlder
    EverythingSettles
CHECK_DEADLOCK FALSE
