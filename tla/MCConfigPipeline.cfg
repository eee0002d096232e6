SPECIFICATION Spec
CONSTANTS
    PL = PL
    US = US
    Blank = Blank
    None = None
    MaxInt = 600
    Aliases <- MCAliases
    Line <- MCLine
    Rule <- MCRule
    Shapes = {"array", "routing", "routing without rules", "neither"}
    MaxBody = 2
    MaxLines = 3
    MaxRules = 2
    MaxWrites = 2
INVARIANTS
    ListedAsServed
    FilesFit
PROPERTIES
    RulesAllOrNothing
CHECK_DEADLOCK FALSE
