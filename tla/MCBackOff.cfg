SPECIFICATION Spec
CONSTANTS
    None = None
    c1 = c1
    c2 = c2
    Config <- MCConfig
    MaxChanges = 1
    MaxFaults = 3
    MaxBoots = 0
INVARIANTS
    BacksOff
CHECK_DEADLOCK FALSE
