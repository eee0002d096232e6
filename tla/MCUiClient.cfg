SPECIFICATION FairSpec
CONSTANTS
    Card = {"a", "b"}
    None = None
    MaxActions = 2
    MaxOthers = 1
    MaxLost = 1
    MaxUnsaved = 1
INVARIANTS
    TypeOK
PROPERTIES
    GoesBackOnlyIfOvertaken
    AutoPickOnboards
    ControlsComeBack
    EventuallyShown
CHECK_DEADLOCK FALSE
