SPECIFICATION Spec
CONSTANTS
    MaxWrites = 3
    MaxFaults = 3
INVARIANTS
    TypeOK
    CommittedWhole
    NeverStuck
PROPERTIES
    NeverDeleted
    Atomic
