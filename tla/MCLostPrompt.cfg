SPECIFICATION Spec
CONSTANTS
    Ports = {"443", "off"}
    Windows = 2
    MaxRefusals = 1
    MaxSessions = 1
INVARIANTS
    ReadsUntilPrompt
CHECK_DEADLOCK FALSE
