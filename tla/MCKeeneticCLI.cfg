SPECIFICATION FairSpec
CONSTANTS
    Ports = {"443"}
    Windows = 2
    MaxRefusals = 1
    MaxSessions = 2
INVARIANTS
    TypeOK
    AnswersAreWhole
    PortIsFree
    ConfiguredIsSaved
    RemovedIsGone
PROPERTIES
    NearsItsEnd
    SessionsEnd
CHECK_DEADLOCK FALSE
