SPECIFICATION Spec
CONSTANTS
    Tabs = {a}
    MaxEvents = 4
PROPERTIES
    EpochDistinguishes
CHECK_DEADLOCK FALSE
