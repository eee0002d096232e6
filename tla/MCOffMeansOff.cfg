SPECIFICATION Spec
CONSTANTS
    None = None
    c1 = c1
    c2 = c2
    Config <- MCConfig
    MaxChanges = 2
    MaxFaults = 0
    MaxBoots = 0
INVARIANTS
    OffMeansOff
CHECK_DEADLOCK FALSE
