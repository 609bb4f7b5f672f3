CONSTANTS
    NSteps = 3
    File = {f1, f2}
    NotLoaded = NotLoaded
SPECIFICATION Spec
INVARIANTS
    CommittedIsAPrefix
    LastGoodVersion
    SuccessIsSaved
PROPERTIES
    SavedIsKept
CHECK_DEADLOCK FALSE
