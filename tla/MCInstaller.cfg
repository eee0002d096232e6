SPECIFICATION Spec
CONSTANTS
    Releases = {"v1", "v2"}
    MaxRuns = 2
    MaxEvents = 1
INVARIANTS
    TypeOK
    StopsOnlyOurs
    LooseOnlyByCut
PROPERTIES
    DoneMeansInPlace
    DoneMeansServing
    FailsOnlyForCause
    KeepsWhatIsThere
    UninstallLeavesNothing
    RebootsOnlyToUnpack
CHECK_DEADLOCK FALSE
