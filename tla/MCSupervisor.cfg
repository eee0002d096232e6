SPECIFICATION FairSpec
CONSTANTS
    None = None
    c1 = c1
    c2 = c2
    Config <- MCConfig
    MaxChanges = 2
    MaxFaults = 2
    MaxBoots = 1
INVARIANTS
    TypeOK
    RunsWhatWasAsked
    FailsClosed
    OffUnlessOverlap
PROPERTIES
    Recovers
CHECK_DEADLOCK FALSE
