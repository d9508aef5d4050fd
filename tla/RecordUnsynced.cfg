SPECIFICATION Spec
CONSTANTS
    MaxWrites = 2
    MaxFaults = 2
INVARIANTS
    CommittedDurable
